---- MODULE Spec2Model ----
(***************************************************************************)
(* Reconciliation and categorisation engine of the DNYS reconciliation     *)
(* tool (server/routes.ts, server/storage.ts, shared/schema.ts).           *)
(*                                                                         *)
(* Conventions:                                                            *)
(*  - text is a TLA+ string (a sequence of characters);                    *)
(*  - an absent (undefined / null) text field is the empty string, which   *)
(*    the code treats alike everywhere (`x || ""`, `if (!x)`);             *)
(*  - a tax rate is an integer number of hundredths (9 is 0.09);           *)
(*  - an amount is an integer number of thousandths of a euro.             *)
(***************************************************************************)
EXTENDS Integers, Sequences, FiniteSets, TLC

VARIABLES
    products,                \* table product_settings: a set of rows
    nextProductId,           \* the serial of product_settings.id
    pending,                 \* the stored pending reconciliations: a set of records
    nextPendingId,           \* stands for the fresh `pending_<time>_<random>` identifiers
    customCategorySettings,  \* MemStorage.customCategorySettings
    sessions,                \* MemStorage.sessions, in order of creation
    comparisons,             \* MemStorage.comparisons: session id -> records
    paymentMethods,          \* MemStorage.paymentMethods: session id -> records
    categories,              \* MemStorage.categories: session id -> records
    categoryItems,           \* MemStorage.categoryItems: session id -> category -> items
    reqs,                    \* the HTTP requests: slot -> handler position and locals
    clsItem,                 \* classifier probe: the description classified
    clsSettings,             \* classifier probe: the category settings passed
    clsResult,               \* classifier probe: the CategoryResult returned
    numValue,                \* parseNumber probe: the string passed
    numResult,               \* parseNumber probe: the number returned
    observed                 \* the answer of the last request that only reads or deletes

productVars == <<products, nextProductId>>
pendingVars == <<pending, nextPendingId>>
sessionVars == <<sessions, comparisons, paymentMethods, categories, categoryItems>>
probeVars == <<clsItem, clsSettings, clsResult, numValue, numResult, observed>>

vars == <<productVars, pendingVars, customCategorySettings, sessionVars, reqs, probeVars>>

-----------------------------------------------------------------------------
(* Text helpers: String.prototype.toLowerCase / includes / trim.           *)

UpperChars == "ABCDEFGHIJKLMNOPQRSTUVWXYZ"
LowerChars == "abcdefghijklmnopqrstuvwxyz"
DigitChars == "0123456789"

CharAt(s, i) == SubSeq(s, i, i)

IsCharOf(c, alphabet) == \E i \in 1..Len(alphabet) : CharAt(alphabet, i) = c

toLowerCaseChar(c) ==
    IF IsCharOf(c, UpperChars)
    THEN CharAt(LowerChars, CHOOSE i \in 1..Len(UpperChars) : CharAt(UpperChars, i) = c)
    ELSE c

RECURSIVE toLowerCase(_)
toLowerCase(s) ==
    IF Len(s) = 0 THEN ""
    ELSE toLowerCaseChar(CharAt(s, 1)) \o toLowerCase(SubSeq(s, 2, Len(s)))

includes(s, k) ==
    \E i \in 1..(Len(s) - Len(k) + 1) : SubSeq(s, i, i + Len(k) - 1) = k

-----------------------------------------------------------------------------
(* shared/schema.ts: REVENUE_CATEGORIES.                                   *)

NoSpecial == "null"

REVENUE_CATEGORIES ==
    ("Online/Livestream" :>
        [keywords |-> <<"livestream", "online", "virtual">>,
         btwRate |-> 9, twinfieldAccount |-> "8200",
         specialHandling |-> NoSpecial, priority |-> 1]) @@
    ("Opleidingen" :>
        [keywords |-> <<"opleiding", "teacher training", "200 uur", "ademcoach",
                        "yogatherapie", "meditatie tot zelfrealisatie",
                        "schoolverlichting", "facilitator", "certification",
                        "300 uur", "yin yoga training", "pilates teacher training">>,
         btwRate |-> 21, twinfieldAccount |-> "8300",
         specialHandling |-> "accrual", priority |-> 2]) @@
    ("Jaarabonnementen" :>
        [keywords |-> <<"year membership", "yearly membership", "jaar abonnement",
                        "jaarlidmaatschap">>,
         btwRate |-> 9, twinfieldAccount |-> "8101",
         specialHandling |-> "spread_12", priority |-> 3]) @@
    ("Gift Cards" :>
        [keywords |-> <<"gift card", "cadeaukaart", "voucher">>,
         btwRate |-> 0, twinfieldAccount |-> "8900",
         specialHandling |-> NoSpecial, priority |-> 4]) @@
    ("Money Credits" :>
        [keywords |-> <<"money credit", "tegoed", "credit">>,
         btwRate |-> 0, twinfieldAccount |-> "8901",
         specialHandling |-> NoSpecial, priority |-> 5]) @@
    ("Workshops & Events" :>
        [keywords |-> <<"workshop", "ceremony", "cacao", "tantra", "truffle",
                        "retreat", "circle", "event", "face yoga", "new year",
                        "sound bath", "gong", "kirtan", "sound healing">>,
         btwRate |-> 9, twinfieldAccount |-> "8150",
         specialHandling |-> NoSpecial, priority |-> 6]) @@
    ("Abonnementen" :>
        [keywords |-> <<"membership", "unlimited", "abonnement", "lidmaatschap",
                        "doorlopend", "monthly", "maandelijks">>,
         btwRate |-> 9, twinfieldAccount |-> "8100",
         specialHandling |-> NoSpecial, priority |-> 7]) @@
    ("Rittenkaarten" :>
        [keywords |-> <<"class card", "rittenkaart", "lessenkaart", "intro", "kaart",
                        "pack", "5 class", "10 class", "20 class", "ritten">>,
         btwRate |-> 9, twinfieldAccount |-> "8110",
         specialHandling |-> NoSpecial, priority |-> 8]) @@
    ("Omzet Keuken" :>
        [keywords |-> <<"bananenbrood", "banana bread", "quiche", "soep", "soup",
                        "bliss ball", "brownie", "snickers", "combideal", "meal",
                        "snack", "food", "eten">>,
         btwRate |-> 9, twinfieldAccount |-> "8001",
         specialHandling |-> NoSpecial, priority |-> 9]) @@
    ("Omzet Drank Laag" :>
        [keywords |-> <<"coffee", "cappuccino", "latte", "espresso", "flat white",
                        "cortado", "macchiato", "americano", "chai", "matcha",
                        "tea", "thee", "smoothie", "kombucha", "lemonaid", "charitea",
                        "kokoswater", "water", "ijsthee", "juice", "cacaoccino",
                        "cacao shot", "cashew melk", "koffie", "drank">>,
         btwRate |-> 9, twinfieldAccount |-> "8002",
         specialHandling |-> NoSpecial, priority |-> 10]) @@
    ("Omzet Drank Hoog" :>
        [keywords |-> <<"beer", "wine", "alcohol", "bier", "wijn">>,
         btwRate |-> 21, twinfieldAccount |-> "8003",
         specialHandling |-> NoSpecial, priority |-> 11]) @@
    ("Single Classes" :>
        [keywords |-> <<"single class", "yoga", "pilates", "flow", "yin", "vinyasa",
                        "ashtanga", "hatha", "restorative", "breathwork", "meditation",
                        "sound", "losse les", "drop in", "drop-in", "€15", "€16",
                        "€17", "€18", "class", "les">>,
         btwRate |-> 9, twinfieldAccount |-> "8120",
         specialHandling |-> NoSpecial, priority |-> 12]) @@
    ("Overig" :>
        [keywords |-> <<>>,
         btwRate |-> 9, twinfieldAccount |-> "8999",
         specialHandling |-> NoSpecial, priority |-> 99])

-----------------------------------------------------------------------------
(* server/routes.ts: the keyword classifier.                               *)

Overig == [category |-> "Overig", btwRate |-> 9, twinfieldAccount |-> "8999",
           specialHandling |-> NoSpecial]

categoryOrder ==
    <<"Online/Livestream", "Opleidingen", "Jaarabonnementen", "Gift Cards",
      "Money Credits", "Workshops & Events", "Abonnementen", "Rittenkaarten",
      "Omzet Keuken", "Omzet Drank Laag", "Omzet Drank Hoog", "Single Classes">>

\* /^[A-Z0-9]{6,10}$/.test(itemName)
isGiftCardCode(itemName) ==
    /\ Len(itemName) >= 6
    /\ Len(itemName) <= 10
    /\ \A i \in 1..Len(itemName) :
          \/ IsCharOf(CharAt(itemName, i), UpperChars)
          \/ IsCharOf(CharAt(itemName, i), DigitChars)

isYearlyMembership(itemLower) ==
    /\ includes(itemLower, "year") \/ includes(itemLower, "jaar")
    /\ includes(itemLower, "membership") \/ includes(itemLower, "abonnement")

\* keywordSkipped without the two exclusions
keywordSkippedNever(categoryName, itemLower) == FALSE

\* the two `continue` statements of the keyword loop
keywordSkipped(categoryName, itemLower) ==
    \/ categoryName = "Rittenkaarten" /\ includes(itemLower, "single")
    \/ categoryName = "Abonnementen"
         /\ (includes(itemLower, "year") \/ includes(itemLower, "jaar"))

\* the inner loop `for (const keyword of config.keywords)` from keyword j on:
\* TRUE iff it reaches the return statement
RECURSIVE keywordLoop(_, _, _, _)
keywordLoop(categoryName, keywords, itemLower, j) ==
    IF j > Len(keywords) THEN FALSE
    ELSE IF includes(itemLower, toLowerCase(keywords[j]))
              /\ ~keywordSkipped(categoryName, itemLower)
         THEN TRUE
         ELSE keywordLoop(categoryName, keywords, itemLower, j + 1)

\* customCategories.find(c => c.name === categoryName): index of the first, or 0
findCustom(customList, categoryName) ==
    IF \E i \in 1..Len(customList) : customList[i].name = categoryName
    THEN CHOOSE i \in 1..Len(customList) :
            /\ customList[i].name = categoryName
            /\ \A j \in 1..(i - 1) : customList[j].name # categoryName
    ELSE 0

\* the loop `for (const categoryName of categoryOrder)` over custom settings
RECURSIVE customOrderLoop(_, _, _)
customOrderLoop(customList, itemLower, n) ==
    IF n > Len(categoryOrder) THEN Overig
    ELSE LET categoryName == categoryOrder[n]
             k == findCustom(customList, categoryName)
         IN IF k # 0 /\ keywordLoop(categoryName, customList[k].keywords, itemLower, 1)
            THEN [category |-> categoryName,
                  btwRate |-> customList[k].btwRate,
                  twinfieldAccount |-> customList[k].twinfieldAccount,
                  specialHandling |-> REVENUE_CATEGORIES[categoryName].specialHandling]
            ELSE customOrderLoop(customList, itemLower, n + 1)

\* the loop `for (const categoryName of categoryOrder)` over the defaults
RECURSIVE defaultOrderLoop(_, _)
defaultOrderLoop(itemLower, n) ==
    IF n > Len(categoryOrder) THEN Overig
    ELSE LET categoryName == categoryOrder[n]
             config == REVENUE_CATEGORIES[categoryName]
         IN IF keywordLoop(categoryName, config.keywords, itemLower, 1)
            THEN [category |-> categoryName,
                  btwRate |-> config.btwRate,
                  twinfieldAccount |-> config.twinfieldAccount,
                  specialHandling |-> config.specialHandling]
            ELSE defaultOrderLoop(itemLower, n + 1)

\* customCategories is [isNull |-> BOOLEAN, list |-> sequence of settings]
categorizeItemByKeywords(itemName, customCategories) ==
    IF itemName = "" THEN Overig
    ELSE LET itemLower == toLowerCase(itemName)
         IN IF isGiftCardCode(itemName)
            THEN [category |-> "Gift Cards", btwRate |-> 0,
                  twinfieldAccount |-> "8900", specialHandling |-> NoSpecial]
            ELSE IF isYearlyMembership(itemLower)
            THEN [category |-> "Jaarabonnementen", btwRate |-> 9,
                  twinfieldAccount |-> "8101", specialHandling |-> "spread_12"]
            ELSE IF ~customCategories.isNull
            THEN customOrderLoop(customCategories.list, itemLower, 1)
            ELSE defaultOrderLoop(itemLower, 1)

categorizeItemFromProduct(product) ==
    [category |-> product.category,
     btwRate |-> product.btwRate,
     twinfieldAccount |->
        IF product.twinfieldAccount = "" THEN "8999" ELSE product.twinfieldAccount,
     specialHandling |->
        IF product.hasAccrual THEN "accrual"
        ELSE IF product.hasSpread THEN "spread_12" ELSE NoSpecial]

-----------------------------------------------------------------------------
(* server/routes.ts: parseNumber, normalizeEmail, getMatchStatus.          *)

WhitespaceChars == " \t\n\r"

\* s.replace(/[chars]/g, "")
RECURSIVE removeChars(_, _)
removeChars(s, chars) ==
    IF Len(s) = 0 THEN ""
    ELSE (IF IsCharOf(CharAt(s, 1), chars) THEN "" ELSE CharAt(s, 1))
            \o removeChars(SubSeq(s, 2, Len(s)), chars)

\* s.lastIndexOf(c), counted from 1; 0 when c does not occur (JavaScript: -1)
lastIndexOf(s, c) ==
    IF \E i \in 1..Len(s) : CharAt(s, i) = c
    THEN CHOOSE i \in 1..Len(s) :
            CharAt(s, i) = c /\ \A j \in (i + 1)..Len(s) : CharAt(s, j) # c
    ELSE 0

\* s.replace(c, d) with a string pattern: the first occurrence only
replaceFirst(s, c, d) ==
    IF \E i \in 1..Len(s) : CharAt(s, i) = c
    THEN LET i == CHOOSE k \in 1..Len(s) :
                    CharAt(s, k) = c /\ \A j \in 1..(k - 1) : CharAt(s, j) # c
         IN SubSeq(s, 1, i - 1) \o d \o SubSeq(s, i + 1, Len(s))
    ELSE s

\* length of the longest prefix of s made of decimal digits
RECURSIVE digitRun(_)
digitRun(s) ==
    IF Len(s) > 0 /\ IsCharOf(CharAt(s, 1), DigitChars)
    THEN 1 + digitRun(SubSeq(s, 2, Len(s)))
    ELSE 0

digitValue(c) == (CHOOSE i \in 1..Len(DigitChars) : CharAt(DigitChars, i) = c) - 1

RECURSIVE digitsValue(_)
digitsValue(s) ==
    IF Len(s) = 0 THEN 0
    ELSE 10 * digitsValue(SubSeq(s, 1, Len(s) - 1)) + digitValue(CharAt(s, Len(s)))

\* a JavaScript number: NaN, or a value in thousandths
NaN == [isNaN |-> TRUE, value |-> 0]

Num(v) == [isNaN |-> FALSE, value |-> v]

\* parseFloat(s) for s without exponent part and other than "Infinity": the value
\* of the longest prefix [+-]digits[.digits], in thousandths (fraction digits
\* beyond the third are dropped); NaN when that prefix holds no digit
parseFloat(s) ==
    LET signed == Len(s) > 0 /\ (CharAt(s, 1) = "-" \/ CharAt(s, 1) = "+")
        negative == Len(s) > 0 /\ CharAt(s, 1) = "-"
        body == IF signed THEN SubSeq(s, 2, Len(s)) ELSE s
        n == digitRun(body)
        afterInt == SubSeq(body, n + 1, Len(body))
        hasPoint == Len(afterInt) > 0 /\ CharAt(afterInt, 1) = "."
        fracAll == IF hasPoint THEN SubSeq(afterInt, 2, Len(afterInt)) ELSE ""
        f == digitRun(fracAll)
        frac3 == SubSeq(SubSeq(fracAll, 1, f) \o "000", 1, 3)
        magnitude == 1000 * digitsValue(SubSeq(body, 1, n)) + digitsValue(frac3)
    IN IF n = 0 /\ f = 0 THEN NaN
       ELSE IF negative THEN Num(0 - magnitude) ELSE Num(magnitude)

\* parseNumber answering -1 where the code answers its default 0
parseNumberNoDefault(value) ==
    IF value = "" THEN -1
    ELSE LET cleaned0 == removeChars(value, "€$" \o WhitespaceChars)
             lastComma == lastIndexOf(cleaned0, ",")
             lastPeriod == lastIndexOf(cleaned0, ".")
             cleaned == IF lastComma > lastPeriod
                        THEN replaceFirst(removeChars(cleaned0, "."), ",", ".")
                        ELSE removeChars(cleaned0, ",")
             num == parseFloat(cleaned)
         IN IF num.isNaN THEN -1 ELSE num.value

parseNumber(value) ==
    IF value = "" THEN 0
    ELSE LET cleaned0 == removeChars(value, "€$" \o WhitespaceChars)
             lastComma == lastIndexOf(cleaned0, ",")
             lastPeriod == lastIndexOf(cleaned0, ".")
             cleaned == IF lastComma > lastPeriod
                        THEN replaceFirst(removeChars(cleaned0, "."), ",", ".")
                        ELSE removeChars(cleaned0, ",")
             num == parseFloat(cleaned)
         IN IF num.isNaN THEN 0 ELSE num.value

\* s.trim()
RECURSIVE trimStart(_)
trimStart(s) ==
    IF Len(s) > 0 /\ IsCharOf(CharAt(s, 1), WhitespaceChars)
    THEN trimStart(SubSeq(s, 2, Len(s))) ELSE s

RECURSIVE trimEnd(_)
trimEnd(s) ==
    IF Len(s) > 0 /\ IsCharOf(CharAt(s, Len(s)), WhitespaceChars)
    THEN trimEnd(SubSeq(s, 1, Len(s) - 1)) ELSE s

trim(s) == trimEnd(trimStart(s))

normalizeEmail(email) == trim(toLowerCase(email))

Abs(x) == IF x < 0 THEN 0 - x ELSE x

\* getMatchStatus with `<=` for `<`
getMatchStatusInclusive(difference) ==
    LET absDiff == Abs(difference)
    IN IF absDiff <= 1 * 1000 THEN "match"
       ELSE IF absDiff <= 5 * 1000 THEN "small_diff"
       ELSE "large_diff"

\* difference in thousandths: the thresholds 1 and 5 are 1000 and 5000
getMatchStatus(difference) ==
    LET absDiff == Abs(difference)
    IN IF absDiff < 1 * 1000 THEN "match"
       ELSE IF absDiff < 5 * 1000 THEN "small_diff"
       ELSE "large_diff"

\* shared/schema.ts
STRIPE_PAYMENT_METHODS == <<"Card", "iDEAL", "SEPA Direct Debit", "Card reader">>

\* shared/schema.ts: the channels documented as not settling via Stripe
NON_STRIPE_PAYMENT_METHODS == <<"Class Pass", "urban-sports-club", "Gift card">>

\* routes.ts, EXCLUDED_EMAILS
EXCLUDED_EMAILS == <<"info@denieuweyogaschool.nl">>

\* STRIPE_PAYMENT_METHODS.includes(paymentMethod)
isStripeMethodExact(paymentMethod) ==
    \E i \in 1..Len(STRIPE_PAYMENT_METHODS) : STRIPE_PAYMENT_METHODS[i] = paymentMethod

\* STRIPE_PAYMENT_METHODS.some(m => paymentMethod.toLowerCase().includes(m.toLowerCase()))
isStripeMethod(paymentMethod) ==
    \E i \in 1..Len(STRIPE_PAYMENT_METHODS) :
        includes(toLowerCase(paymentMethod), toLowerCase(STRIPE_PAYMENT_METHODS[i]))

-----------------------------------------------------------------------------
(* Inputs: the rows, descriptions and settings the model draws from.       *)

MaxMomenceRows == 2
MaxStripeRows == 2

MomenceRow(method, sale, tax, email, item, date) ==
    [PaymentMethod |-> method, SaleValue |-> sale, Tax |-> tax,
     CustomerEmail |-> email, Item |-> item, Date |-> date]

RowMembership ==
    MomenceRow("Card", "50.00", "4.13", "alice@x.com", "Monthly Membership", "2024-01-05")
RowYogaIdeal ==
    MomenceRow("iDEAL", "€ 50,00", "4,13", " Alice@X.com ", "Yoga Flow", "2024-01-03")
RowRefund ==
    MomenceRow("Card", "-50.00", "-4.13", "alice@x.com", "Monthly Membership", "2024-01-07")
RowGiftCard ==
    MomenceRow("Gift card", "12.50", "0", "bob@y.org", "GIFT2024XY", "2024-01-04")
RowClassPass ==
    MomenceRow("Class Pass", "10.00", "0.83", "carol@z.nl", "Yoga Flow", "2024-01-02")
RowMystery ==
    MomenceRow("Card reader", "25.00", "2.06", "Info@DeNieuweYogaschool.nl",
               "Mystery Item", "2024-01-06")
RowNoItem ==
    MomenceRow("card", "3.00", "", "", "", "")

MomenceRowUniverse ==
    {RowMembership, RowYogaIdeal, RowRefund, RowGiftCard, RowClassPass, RowMystery,
     RowNoItem}

\* new export format (gross, fee, customer_email, reporting_category) or the
\* old one (Amount, Fee, Customer Email, Status)
StripeRowNew(category, email, gross, fee) ==
    [reporting_category |-> category, Status |-> "", customer_email |-> email,
     CustomerEmailOld |-> "", gross |-> gross, Amount |-> "", fee |-> fee, Fee |-> ""]

StripeRowOld(status, email, amount, fee) ==
    [reporting_category |-> "", Status |-> status, customer_email |-> "",
     CustomerEmailOld |-> email, gross |-> "", Amount |-> amount, fee |-> "", Fee |-> fee]

ChargeAlice49001 == StripeRowNew("charge", "alice@x.com", "49.001", "1.50")
ChargeAlice49 == StripeRowNew("charge", "Alice@x.com", "49.00", "1.50")
ChargeAlice46 == StripeRowNew("charge", "alice@x.com", "46.00", "1.25")
PaidBob == StripeRowOld("Paid", " BOB@y.org", "46,00", "0,50")
ChargeStudio == StripeRowNew("charge", "info@denieuweyogaschool.nl", "20.00", "0.80")
RefundAlice == StripeRowNew("refund", "alice@x.com", "-49.00", "0")
ChargeNoEmail == StripeRowNew("charge", "  ", "7.00", "0.30")

StripeRowUniverse ==
    {ChargeAlice49001, ChargeAlice49, ChargeAlice46, PaidBob, ChargeStudio, RefundAlice,
     ChargeNoEmail}

\* sequences without repetition of at most n elements of S
RECURSIVE InjectiveSeqs(_, _)
InjectiveSeqs(S, n) ==
    IF n = 0 THEN {<<>>}
    ELSE LET shorter == InjectiveSeqs(S, n - 1)
         IN shorter \cup
            {Append(p[1], p[2]) :
                p \in {p \in shorter \X S :
                          /\ Len(p[1]) = n - 1
                          /\ \A i \in 1..Len(p[1]) : p[1][i] # p[2]}}

NullSettings == [isNull |-> TRUE, list |-> <<>>]

\* a settings list as POST /api/settings/categories stores it
CustomSettingsA ==
    [isNull |-> FALSE,
     list |-> <<[name |-> "Single Classes", keywords |-> <<"Yoga", "class">>,
                 btwRate |-> 21, twinfieldAccount |-> "8121"],
                [name |-> "Online/Livestream", keywords |-> <<"stream">>,
                 btwRate |-> 9, twinfieldAccount |-> "8200"],
                [name |-> "Abonnementen", keywords |-> <<"membership", "unlimited">>,
                 btwRate |-> 9, twinfieldAccount |-> "8100"]>>]

SettingsUniverse == {NullSettings, CustomSettingsA}

ClassifierItems ==
    {"", "Online Yoga Class", "Monthly Membership", "Year Membership",
     "Online Year Membership", "Single Class Card", "10 Class Card",
     "GIFT2024XY", "gift2024xy", "ONLINE2024", "Cacao Ceremony", "Flat White",
     "Mystery Item", "Yearly Unlimited", "Teacher Training 200 uur"}

ItemUniverse == ClassifierItems \cup {r.Item : r \in MomenceRowUniverse}

AmountUniverse ==
    {""} \cup {r.SaleValue : r \in MomenceRowUniverse}
         \cup {r.Tax : r \in MomenceRowUniverse}
         \cup {r.gross : r \in StripeRowUniverse} \cup {r.Amount : r \in StripeRowUniverse}
         \cup {r.fee : r \in StripeRowUniverse} \cup {r.Fee : r \in StripeRowUniverse}

EmailUniverse ==
    {""} \cup {r.CustomerEmail : r \in MomenceRowUniverse}
         \cup {r.customer_email : r \in StripeRowUniverse}
         \cup {r.CustomerEmailOld : r \in StripeRowUniverse}

MethodUniverse == {r.PaymentMethod : r \in MomenceRowUniverse}

(* The pure functions tabulated over the inputs: each is computed once per  *)
(* input by the operator above that models the code.                       *)
parseNumberTable == [s \in AmountUniverse |-> parseNumber(s)]

normalizeEmailTable == [s \in EmailUniverse |-> normalizeEmail(s)]

isStripeMethodTable == [s \in MethodUniverse |-> isStripeMethod(s)]

StatusUniverse ==
    {r.reporting_category : r \in StripeRowUniverse} \cup {r.Status : r \in StripeRowUniverse}
        \cup {normalizeEmail(e) : e \in EmailUniverse}

toLowerCaseTable == [s \in StatusUniverse |-> toLowerCase(s)]

keywordTable ==
    [d \in ItemUniverse |->
        [c \in SettingsUniverse |-> categorizeItemByKeywords(d, c)]]

-----------------------------------------------------------------------------
(* server/storage.ts: product memory reads; routes.ts: categorizeItem.     *)

NoProduct == [id |-> 0]

\* select ... where item_name = itemName; item_name is unique
getProductByName(table, itemName) ==
    IF \E p \in table : p.itemName = itemName
    THEN CHOOSE p \in table : p.itemName = itemName
    ELSE NoProduct

\* categorizeItem without the test of isReviewed
categorizeItemAnyRecord(itemName, customCategories, table) ==
    IF itemName = "" THEN Overig
    ELSE LET storedProduct == getProductByName(table, itemName)
         IN IF storedProduct # NoProduct
            THEN categorizeItemFromProduct(storedProduct)
            ELSE keywordTable[itemName][customCategories]

\* categorizeItem without the product memory
categorizeItemKeywordsOnly(itemName, customCategories, table) ==
    IF itemName = "" THEN Overig ELSE keywordTable[itemName][customCategories]

\* categorizeItem, given the table storage.getProductByName reads
categorizeItem(itemName, customCategories, table) ==
    IF itemName = "" THEN Overig
    ELSE LET storedProduct == getProductByName(table, itemName)
         IN IF storedProduct # NoProduct /\ storedProduct.isReviewed
            THEN categorizeItemFromProduct(storedProduct)
            ELSE keywordTable[itemName][customCategories]

-----------------------------------------------------------------------------
(* JavaScript Map and Set keep insertion order: a Map is a sequence of     *)
(* [key, val] entries with distinct keys, a Set a sequence without         *)
(* repetition.                                                             *)

mapIndex(m, k) ==
    IF \E i \in 1..Len(m) : m[i].key = k
    THEN CHOOSE i \in 1..Len(m) : m[i].key = k
    ELSE 0

mapHas(m, k) == mapIndex(m, k) # 0

\* m.get(k) || d
mapGetOr(m, k, d) == IF mapHas(m, k) THEN m[mapIndex(m, k)].val ELSE d

\* m.set(k, v)
mapSet(m, k, v) ==
    IF mapHas(m, k) THEN [m EXCEPT ![mapIndex(m, k)].val = v]
    ELSE Append(m, [key |-> k, val |-> v])

mapKeys(m) == [i \in 1..Len(m) |-> m[i].key]

\* s.add(x)
setAdd(s, x) == IF \E i \in 1..Len(s) : s[i] = x THEN s ELSE Append(s, x)

\* parts.join(sep)
RECURSIVE join(_, _)
join(parts, sep) ==
    IF Len(parts) = 0 THEN ""
    ELSE IF Len(parts) = 1 THEN parts[1]
    ELSE parts[1] \o sep \o join(Tail(parts), sep)

-----------------------------------------------------------------------------
(* routes.ts, processReconciliation: the loop over the feed-A rows.        *)

\* the accumulators before the first row; momenceByEmail joins the four maps
\* momenceByEmail, momenceItemsByEmail, momenceDatesByEmail and
\* momenceCountByEmail, which are always written together
EmptyAcc ==
    [momenceByEmail |-> <<>>,
     paymentMethodTotals |-> <<>>,
     categoryTotals |-> <<>>,
     categoryItems |-> <<>>,
     momenceTotalAll |-> 0,
     nonStripeTotal |-> 0]

\* categoryEntry with the rate and the ledger code of the latest row
categoryEntryLatest(categoryTotals, cat) ==
    LET entry == mapGetOr(categoryTotals, cat.category,
                          [count |-> 0, total |-> 0, totalTax |-> 0])
    IN [count |-> entry.count, total |-> entry.total, totalTax |-> entry.totalTax,
        btwRate |-> cat.btwRate, twinfieldAccount |-> cat.twinfieldAccount]

\* categoryTotals.get(cat.category) || { count: 0, ..., btwRate: cat.btwRate,
\* twinfieldAccount: cat.twinfieldAccount }
categoryEntry(categoryTotals, cat) ==
    mapGetOr(categoryTotals, cat.category,
             [count |-> 0, total |-> 0, totalTax |-> 0,
              btwRate |-> cat.btwRate, twinfieldAccount |-> cat.twinfieldAccount])

\* one iteration of `for (const row of momenceData)`; cat is what
\* categorizeItem returned for the row
accumulateRow(acc, row, cat) ==
    LET paymentMethod == row.PaymentMethod
        saleValue == parseNumberTable[row.SaleValue]
        tax == parseNumberTable[row.Tax]
        customerEmail == normalizeEmailTable[row.CustomerEmail]
        item == row.Item
        transactionDate == row.Date
        isStripe == isStripeMethodTable[paymentMethod]
        methodData == mapGetOr(acc.paymentMethodTotals, paymentMethod,
                               [count |-> 0, total |-> 0, isStripe |-> isStripe])
        catData == categoryEntry(acc.categoryTotals, cat)
        itemName == IF item = "" THEN "Onbekend" ELSE item
        itemsMap == mapGetOr(acc.categoryItems, cat.category, <<>>)
        itemData == mapGetOr(itemsMap, itemName, [amount |-> 0, count |-> 0, dates |-> <<>>])
        current == mapGetOr(acc.momenceByEmail, customerEmail,
                            [total |-> 0, items |-> <<>>, dates |-> <<>>, count |-> 0])
    IN [momenceByEmail |->
            IF isStripe /\ customerEmail # ""
            THEN mapSet(acc.momenceByEmail, customerEmail,
                        [total |-> current.total + saleValue,
                         items |-> IF item # "" THEN setAdd(current.items, item)
                                   ELSE current.items,
                         dates |-> IF transactionDate # ""
                                   THEN setAdd(current.dates, transactionDate)
                                   ELSE current.dates,
                         count |-> current.count + 1])
            ELSE acc.momenceByEmail,
        paymentMethodTotals |->
            mapSet(acc.paymentMethodTotals, paymentMethod,
                   [methodData EXCEPT !.count = @ + 1, !.total = @ + saleValue]),
        categoryTotals |->
            mapSet(acc.categoryTotals, cat.category,
                   [catData EXCEPT !.count = @ + 1, !.total = @ + saleValue,
                                   !.totalTax = @ + tax]),
        categoryItems |->
            mapSet(acc.categoryItems, cat.category,
                   mapSet(itemsMap, itemName,
                          [amount |-> itemData.amount + saleValue,
                           count |-> itemData.count + 1,
                           dates |-> IF transactionDate # ""
                                     THEN setAdd(itemData.dates, transactionDate)
                                     ELSE itemData.dates])),
        momenceTotalAll |-> acc.momenceTotalAll + saleValue,
        nonStripeTotal |->
            IF isStripe THEN acc.nonStripeTotal ELSE acc.nonStripeTotal + saleValue]

-----------------------------------------------------------------------------
(* routes.ts, processReconciliation: after the loop over the feed-A rows.  *)

\* stripeLoop without `if (!email) continue`
RECURSIVE stripeLoopKeepEmpty(_, _, _)
stripeLoopKeepEmpty(stripeData, n, st) ==
    IF n > Len(stripeData) THEN st
    ELSE LET row == stripeData[n]
             isCharge == \/ toLowerCaseTable[row.reporting_category] = "charge"
                         \/ toLowerCaseTable[row.Status] = "paid"
             email == normalizeEmailTable[IF row.customer_email # "" THEN row.customer_email
                                          ELSE row.CustomerEmailOld]
             amount == parseNumberTable[IF row.gross # "" THEN row.gross ELSE row.Amount]
             fee == parseNumberTable[IF row.fee # "" THEN row.fee ELSE row.Fee]
             current == mapGetOr(st.stripeByEmail, email, [amount |-> 0, fee |-> 0])
         IN IF ~isCharge THEN stripeLoopKeepEmpty(stripeData, n + 1, st)
            ELSE stripeLoopKeepEmpty(stripeData, n + 1,
                    [stripeByEmail |-> mapSet(st.stripeByEmail, email,
                                              [amount |-> current.amount + amount,
                                               fee |-> current.fee + fee]),
                     stripeTotalAmount |-> st.stripeTotalAmount + amount,
                     stripeTotalFees |-> st.stripeTotalFees + fee])

\* `for (const row of stripeData)`, rows n.. of the feed, onto st
RECURSIVE stripeLoop(_, _, _)
stripeLoop(stripeData, n, st) ==
    IF n > Len(stripeData) THEN st
    ELSE LET row == stripeData[n]
             reportingCategory == toLowerCaseTable[row.reporting_category]
             status == toLowerCaseTable[row.Status]
             isCharge == reportingCategory = "charge" \/ status = "paid"
             email == normalizeEmailTable[IF row.customer_email # "" THEN row.customer_email
                                          ELSE row.CustomerEmailOld]
             amount == parseNumberTable[IF row.gross # "" THEN row.gross ELSE row.Amount]
             fee == parseNumberTable[IF row.fee # "" THEN row.fee ELSE row.Fee]
             current == mapGetOr(st.stripeByEmail, email, [amount |-> 0, fee |-> 0])
         IN IF ~isCharge \/ email = "" THEN stripeLoop(stripeData, n + 1, st)
            ELSE stripeLoop(stripeData, n + 1,
                    [stripeByEmail |-> mapSet(st.stripeByEmail, email,
                                              [amount |-> current.amount + amount,
                                               fee |-> current.fee + fee]),
                     stripeTotalAmount |-> st.stripeTotalAmount + amount,
                     stripeTotalFees |-> st.stripeTotalFees + fee])

EmptyStripe == [stripeByEmail |-> <<>>, stripeTotalAmount |-> 0, stripeTotalFees |-> 0]

\* Array.from(new Set([...a, ...b]))
RECURSIVE dedupe(_, _)
dedupe(xs, seen) ==
    IF Len(xs) = 0 THEN seen ELSE dedupe(Tail(xs), setAdd(seen, Head(xs)))

allEmailsOf(momenceByEmail, stripeByEmail) ==
    dedupe(mapKeys(momenceByEmail) \o mapKeys(stripeByEmail), <<>>)

\* the loop over allEmails without the test of EXCLUDED_EMAILS
isExcludedNever(email) == FALSE

isExcluded(email) ==
    \E i \in 1..Len(EXCLUDED_EMAILS) : EXCLUDED_EMAILS[i] = toLowerCaseTable[email]

\* the body of `for (const email of allEmails)` for an email that is not excluded
comparisonOf(email, momenceByEmail, stripeByEmail) ==
    LET customer == mapGetOr(momenceByEmail, email,
                             [total |-> 0, items |-> <<>>, dates |-> <<>>, count |-> 0])
        momenceTotal == customer.total
        stripeEmailData == mapGetOr(stripeByEmail, email, [amount |-> 0, fee |-> 0])
        difference == momenceTotal - stripeEmailData.amount
    IN [customerEmail |-> email,
        momenceTotal |-> momenceTotal,
        stripeAmount |-> stripeEmailData.amount,
        stripeFee |-> stripeEmailData.fee,
        stripeNet |-> stripeEmailData.amount - stripeEmailData.fee,
        difference |-> difference,
        matchStatus |->
            IF momenceTotal > 0 /\ stripeEmailData.amount = 0 THEN "only_in_momence"
            ELSE IF momenceTotal = 0 /\ stripeEmailData.amount > 0 THEN "only_in_stripe"
            ELSE getMatchStatus(difference),
        items |-> join(customer.items, ", "),
        transactionDate |-> join(customer.dates, ", "),
        transactionCount |-> customer.count]

RECURSIVE comparisonLoop(_, _, _, _)
comparisonLoop(allEmails, n, momenceByEmail, stripeByEmail) ==
    IF n > Len(allEmails) THEN <<>>
    ELSE (IF isExcluded(allEmails[n]) THEN <<>>
          ELSE <<comparisonOf(allEmails[n], momenceByEmail, stripeByEmail)>>)
         \o comparisonLoop(allEmails, n + 1, momenceByEmail, stripeByEmail)

\* a sort that leaves the entries in their order of arrival
insertArrival(sorted, e) == Append(sorted, e)

\* Array.prototype.sort is stable: entries [k, v] by descending k, entries of
\* equal k in their order of arrival
insertDesc(sorted, e) ==
    IF \E i \in 1..Len(sorted) : sorted[i].k < e.k
    THEN LET i == CHOOSE i \in 1..Len(sorted) :
                    sorted[i].k < e.k /\ \A j \in 1..(i - 1) : sorted[j].k >= e.k
         IN SubSeq(sorted, 1, i - 1) \o <<e>> \o SubSeq(sorted, i, Len(sorted))
    ELSE Append(sorted, e)

RECURSIVE sortDescFrom(_, _, _)
sortDescFrom(entries, n, sorted) ==
    IF n > Len(entries) THEN sorted
    ELSE sortDescFrom(entries, n + 1, insertDesc(sorted, entries[n]))

sortDesc(entries) == [i \in 1..Len(entries) |-> sortDescFrom(entries, 1, <<>>)[i].v]

\* comparisons.sort((a, b) => Math.abs(b.difference) - Math.abs(a.difference))
sortComparisons(comps) ==
    sortDesc([i \in 1..Len(comps) |->
                [k |-> Abs(comps[i].difference), v |-> comps[i]]])

RECURSIVE sumTotals(_)
sumTotals(m) == IF Len(m) = 0 THEN 0 ELSE Head(m).val.total + sumTotals(Tail(m))

countMatched(comps) ==
    Cardinality({i \in 1..Len(comps) : comps[i].matchStatus = "match"})

\* percentageOf without the test `grandTotal > 0`
percentageOfUnguarded(amount, grandTotal) == [num |-> amount * 100, den |-> grandTotal]

\* amount / grandTotal * 100 as the fraction num/den; 0 when grandTotal is not positive
percentageOf(amount, grandTotal) ==
    IF grandTotal > 0 THEN [num |-> amount * 100, den |-> grandTotal]
    ELSE [num |-> 0, den |-> 1]

\* code units in ascending order, for the default Array.prototype.sort
CharCodeOrder ==
    " $+,-./" \o DigitChars \o ":@" \o UpperChars \o "_" \o LowerChars \o "€"

charCode(c) == CHOOSE i \in 1..Len(CharCodeOrder) : CharAt(CharCodeOrder, i) = c

RECURSIVE stringLess(_, _)
stringLess(a, b) ==
    IF Len(b) = 0 THEN FALSE
    ELSE IF Len(a) = 0 THEN TRUE
    ELSE IF CharAt(a, 1) = CharAt(b, 1)
         THEN stringLess(SubSeq(a, 2, Len(a)), SubSeq(b, 2, Len(b)))
         ELSE charCode(CharAt(a, 1)) < charCode(CharAt(b, 1))

\* Array.from(dates).sort()
RECURSIVE sortStrings(_)
sortStrings(xs) ==
    IF Len(xs) = 0 THEN <<>>
    ELSE LET rest == sortStrings(SubSeq(xs, 1, Len(xs) - 1))
             x == xs[Len(xs)]
             n == Cardinality({i \in 1..Len(rest) : ~stringLess(x, rest[i])})
         IN SubSeq(rest, 1, n) \o <<x>> \o SubSeq(rest, n + 1, Len(rest))

\* paymentMethods: the payment method records, from the sorted entries
methodRecords(sortedMethods, momenceTotalAll) ==
    [i \in 1..Len(sortedMethods) |->
        [paymentMethod |-> IF sortedMethods[i].key = "" THEN "Onbekend"
                           ELSE sortedMethods[i].key,
         transactionCount |-> sortedMethods[i].val.count,
         totalAmount |-> sortedMethods[i].val.total,
         percentage |-> percentageOf(sortedMethods[i].val.total, momenceTotalAll),
         goesThruStripe |-> IF sortedMethods[i].val.isStripe THEN 1 ELSE 0]]

\* categories: the category summary records, from the sorted entries
categoryRecords(sortedCategories, categoryTotal) ==
    [i \in 1..Len(sortedCategories) |->
        [category |-> sortedCategories[i].key,
         transactionCount |-> sortedCategories[i].val.count,
         totalAmount |-> sortedCategories[i].val.total,
         totalTax |-> sortedCategories[i].val.totalTax,
         btwRate |-> sortedCategories[i].val.btwRate,
         twinfieldAccount |-> sortedCategories[i].val.twinfieldAccount,
         percentage |-> percentageOf(sortedCategories[i].val.total, categoryTotal)]]

\* the item details of each category, sorted by descending amount
itemRecords(catItems) ==
    [i \in 1..Len(catItems) |->
        [key |-> catItems[i].key,
         val |-> sortDesc([j \in 1..Len(catItems[i].val) |->
                    [k |-> catItems[i].val[j].val.amount,
                     v |-> [item |-> catItems[i].val[j].key,
                            amount |-> catItems[i].val[j].val.amount,
                            count |-> catItems[i].val[j].val.count,
                            date |-> join(sortStrings(catItems[i].val[j].val.dates),
                                          ", ")]]])]]

\* the sorted comparison list for the two per-identity accumulators
comparisonsOfRun(momenceByEmail, stripeByEmail) ==
    sortComparisons(comparisonLoop(allEmailsOf(momenceByEmail, stripeByEmail), 1,
                                   momenceByEmail, stripeByEmail))

\* the session and its derived records, given the accumulators of both feeds
\* and the sorted comparison list
tailRecords(acc, period, st, sortedComparisons) ==
    [session |->
        [period |-> period,
         momenceTotal |-> sumTotals(acc.momenceByEmail),
         stripeTotal |-> st.stripeTotalAmount,
         stripeFees |-> st.stripeTotalFees,
         stripeNet |-> st.stripeTotalAmount - st.stripeTotalFees,
         nonStripeTotal |-> acc.nonStripeTotal,
         matchedCount |-> countMatched(sortedComparisons),
         unmatchedCount |-> Len(sortedComparisons) - countMatched(sortedComparisons),
         status |-> "completed"],
     comparisons |-> sortedComparisons,
     paymentMethods |->
        methodRecords(sortDesc([i \in 1..Len(acc.paymentMethodTotals) |->
                                  [k |-> acc.paymentMethodTotals[i].val.total,
                                   v |-> acc.paymentMethodTotals[i]]]),
                      acc.momenceTotalAll),
     categories |->
        categoryRecords(sortDesc([i \in 1..Len(acc.categoryTotals) |->
                                    [k |-> acc.categoryTotals[i].val.total,
                                     v |-> acc.categoryTotals[i]]]),
                        sumTotals(acc.categoryTotals)),
     categoryItems |-> itemRecords(acc.categoryItems)]

processTailWith(acc, period, st) ==
    tailRecords(acc, period, st, comparisonsOfRun(acc.momenceByEmail, st.stripeByEmail))

\* everything processReconciliation computes after the loop over the feed-A
\* rows, before it writes to storage
processTail(acc, stripeData, period) ==
    processTailWith(acc, period, stripeLoop(stripeData, 1, EmptyStripe))

-----------------------------------------------------------------------------
(* server/storage.ts: the writes of MemStorage and of the product table.   *)

\* randomUUID() is a fresh identifier: the next index of `sessions`; the field
\* `request` records which request's run created the session (history only)
createSession(ss, session, slot) ==
    Append(ss, [id |-> Len(ss) + 1, request |-> slot] @@ session)

withSessionId(records, sessionId) ==
    [i \in 1..Len(records) |-> [sessionId |-> sessionId] @@ records[i]]

\* this.comparisons.set(sessionId, ...), and likewise for the other maps
addComparisons(store, sessionId, records) == (sessionId :> records) @@ store
addPaymentMethods(store, sessionId, records) == (sessionId :> records) @@ store
addCategories(store, sessionId, records) == (sessionId :> records) @@ store

\* the loop over categoryItemsArray, one storage.addCategoryItems for each category
addCategoryItems(store, sessionId, itemsByCategory) == (sessionId :> itemsByCategory) @@ store

Undefined == -1

\* db.insert(productSettings).values(product): the values /api/products/batch passes
saveProduct(table, id, d) ==
    table \cup
    {[id |-> id, itemName |-> d.itemName, category |-> d.category,
      btwRate |-> IF d.btwRate = Undefined \/ d.btwRate = 0 THEN 9 ELSE d.btwRate,
      twinfieldAccount |-> IF d.twinfieldAccount = "" THEN "8999" ELSE d.twinfieldAccount,
      hasAccrual |-> d.hasAccrual, hasSpread |-> d.hasSpread,
      isReviewed |-> TRUE,
      transactionCount |-> IF d.transactionCount = Undefined THEN 0 ELSE d.transactionCount]}

\* db.update(productSettings).set(...).where(id = existing.id) with the values
\* /api/products/batch passes; an undefined value leaves its column as it is
updateProduct(table, existing, d) ==
    {IF p.id # existing.id THEN p
     ELSE [p EXCEPT
             !.category = d.category,
             !.btwRate = IF d.btwRate = Undefined THEN @ ELSE d.btwRate,
             !.twinfieldAccount = IF d.twinfieldAccount = "" THEN @ ELSE d.twinfieldAccount,
             !.hasAccrual = d.hasAccrual,
             !.hasSpread = d.hasSpread,
             !.isReviewed = TRUE,
             !.transactionCount =
                 existing.transactionCount +
                 (IF d.transactionCount = Undefined THEN 0 ELSE d.transactionCount)]
     : p \in table}

\* The pending reconciliations (IStorage of the specification, section 6:
\* savePendingReconciliation, getPendingReconciliation,
\* deletePendingReconciliation), a durable table keyed by id.
NoPending == [id |-> 0]

savePendingReconciliation(table, record) ==
    {p \in table : p.id # record.id} \cup {record}

getPendingReconciliation(table, id) ==
    IF \E p \in table : p.id = id
    THEN CHOOSE p \in table : p.id = id
    ELSE NoPending

deletePendingReconciliation(table, id) == {p \in table : p.id # id}

-----------------------------------------------------------------------------
(* The request handlers of routes.ts.  A handler runs without interruption  *)
(* from one completed database call to the next one it starts: awaiting a  *)
(* MemStorage method (sessions, derived records, category settings) does   *)
(* no I/O and hands control to no other handler.  Database calls (the      *)
(* product table, the pending reconciliations) are the steps.              *)

MaxRequests == 3

Slots == 1..MaxRequests

IdleRequest ==
    [kind |-> "none", pc |-> "idle", outcome |-> "",
     momenceData |-> <<>>, stripeData |-> <<>>, period |-> "", skipReview |-> FALSE,
     customCategories |-> NullSettings,
     itemKeys |-> <<>>, scanIdx |-> 0, newProducts |-> <<>>,
     tempSessionId |-> 0, rowIdx |-> 0, acc |-> EmptyAcc, sessionId |-> 0,
     batch |-> <<>>, batchIdx |-> 0, existing |-> NoProduct, saved |-> 0,
     deletedPending |-> FALSE, failed |-> FALSE, startedAfter |-> {}]

\* history only (fields startedAfter, deletedPending, failed): the requests that
\* had been answered when this one arrived; whether it has deleted its pending
\* record; whether a database call of it was rejected
AnsweredRequests == {k \in Slots : reqs[k].pc = "done"}

\* checkForNewProducts without `if (!item) continue`
RECURSIVE itemStatsKeysAll(_, _, _)
itemStatsKeysAll(momenceData, n, keys) ==
    IF n > Len(momenceData) THEN keys
    ELSE itemStatsKeysAll(momenceData, n + 1, setAdd(keys, momenceData[n].Item))

\* the keys of itemStats in checkForNewProducts: the distinct non-empty items
RECURSIVE itemStatsKeys(_, _, _)
itemStatsKeys(momenceData, n, keys) ==
    IF n > Len(momenceData) THEN keys
    ELSE itemStatsKeys(momenceData, n + 1,
                       IF momenceData[n].Item = "" THEN keys
                       ELSE setAdd(keys, momenceData[n].Item))

\* itemStats.get(itemName): the count and total of the rows of an item
itemStatsOf(momenceData, itemName) ==
    LET idx == {i \in 1..Len(momenceData) : momenceData[i].Item = itemName}
        RECURSIVE total(_)
        total(n) == IF n > Len(momenceData) THEN 0
                    ELSE (IF n \in idx THEN parseNumberTable[momenceData[n].SaleValue] ELSE 0)
                         + total(n + 1)
    IN [count |-> Cardinality(idx), total |-> total(1)]

\* skipItemless with `if (!item) continue` for the rows without description
RECURSIVE skipItemlessDropped(_, _, _, _)
skipItemlessDropped(momenceData, n, acc, customCategories) ==
    IF n > Len(momenceData) \/ momenceData[n].Item # ""
    THEN [acc |-> acc, rowIdx |-> n]
    ELSE skipItemlessDropped(momenceData, n + 1, acc, customCategories)

\* the rows from row n on that categorizeItem answers without a database read
\* (`if (!itemName) return ...`) are accumulated at once
RECURSIVE skipItemless(_, _, _, _)
skipItemless(momenceData, n, acc, customCategories) ==
    IF n > Len(momenceData) \/ momenceData[n].Item # ""
    THEN [acc |-> acc, rowIdx |-> n]
    ELSE skipItemless(momenceData, n + 1,
                      accumulateRow(acc, momenceData[n],
                                    categorizeItem(momenceData[n].Item, customCategories, {})),
                      customCategories)

\* the request once the loop has advanced to adv: it waits at a row for its
\* database read, or, no row being left, has written the session
progressTo(r, adv) ==
    IF adv.rowIdx > Len(r.momenceData)
    THEN [r EXCEPT !.pc = "done", !.outcome = "session", !.acc = adv.acc,
                   !.rowIdx = adv.rowIdx, !.sessionId = Len(sessions) + 1]
    ELSE [r EXCEPT !.pc = "row", !.acc = adv.acc, !.rowIdx = adv.rowIdx]

\* processReconciliation from row n on, up to its next database read
runProgress(r, n, acc) ==
    progressTo(r, skipItemless(r.momenceData, n, acc, r.customCategories))

\* createSession, addComparisons, addPaymentMethods, addCategories and
\* addCategoryItems with what processReconciliation computed
WriteOut(slot, id, out) ==
    /\ sessions' = createSession(sessions, out.session, slot)
    /\ comparisons' = addComparisons(comparisons, id, withSessionId(out.comparisons, id))
    /\ paymentMethods' = addPaymentMethods(paymentMethods, id,
                                           withSessionId(out.paymentMethods, id))
    /\ categories' = addCategories(categories, id, withSessionId(out.categories, id))
    /\ categoryItems' = addCategoryItems(categoryItems, id, out.categoryItems)

\* the storage writes of processReconciliation, once r has run to its end
WriteRun(slot, r) ==
    IF r.pc = "done" /\ r.outcome = "session"
    THEN WriteOut(slot, r.sessionId, processTail(r.acc, r.stripeData, r.period))
    ELSE UNCHANGED sessionVars

\* the handler of slot has reached r
Commit(slot, r) ==
    /\ reqs' = [reqs EXCEPT ![slot] = r]
    /\ WriteRun(slot, r)

\* the handler of slot has reached r, drawing a fresh pending identifier when
\* it is about to save a pending reconciliation
CommitScan(slot, r) ==
    /\ Commit(slot, r)
    /\ nextPendingId' = IF r.pc = "save" THEN nextPendingId + 1 ELSE nextPendingId

\* a request arrives in the lowest free slot
CanStart(slot) ==
    /\ reqs[slot].pc = "idle"
    /\ \A k \in 1..(slot - 1) : reqs[k].pc # "idle"

\* POST /api/reconcile, up to its first database call
StartReconcile(slot, momenceData, stripeData, period, skipReview) ==
    /\ CanStart(slot)
    /\ LET r0 == [IdleRequest EXCEPT !.kind = "reconcile", !.momenceData = momenceData,
                     !.stripeData = stripeData, !.period = period,
                     !.skipReview = skipReview,
                     !.customCategories = customCategorySettings,
                     !.startedAfter = AnsweredRequests]
           keys == itemStatsKeys(momenceData, 1, <<>>)
           r1 == IF Len(momenceData) = 0 \/ Len(stripeData) = 0
                 THEN [r0 EXCEPT !.pc = "done", !.outcome = "badRequest"]
                 ELSE IF ~skipReview /\ Len(keys) > 0
                 THEN [r0 EXCEPT !.pc = "scan", !.itemKeys = keys, !.scanIdx = 1]
                 ELSE runProgress(r0, 1, EmptyAcc)
       IN Commit(slot, r1)
    /\ UNCHANGED <<productVars, pendingVars, customCategorySettings, probeVars>>

\* checkForNewProducts: storage.getProductByName answers for one item
ScanStep(slot) ==
    /\ reqs[slot].pc = "scan"
    /\ LET r == reqs[slot]
           itemName == r.itemKeys[r.scanIdx]
           storedProduct == getProductByName(products, itemName)
           categorization == keywordTable[itemName][r.customCategories]
           stats == itemStatsOf(r.momenceData, itemName)
           found == IF storedProduct = NoProduct
                    THEN Append(r.newProducts,
                                [itemName |-> itemName,
                                 suggestedCategory |-> categorization.category,
                                 btwRate |-> categorization.btwRate,
                                 twinfieldAccount |-> categorization.twinfieldAccount,
                                 specialHandling |-> categorization.specialHandling,
                                 transactionCount |-> stats.count,
                                 totalAmount |-> stats.total])
                    ELSE r.newProducts
           r1 == [r EXCEPT !.newProducts = found, !.scanIdx = @ + 1]
           r2 == IF r1.scanIdx <= Len(r.itemKeys) THEN r1
                 ELSE IF Len(found) > 0
                 THEN [r1 EXCEPT !.pc = "save", !.tempSessionId = nextPendingId]
                 ELSE runProgress(r1, 1, EmptyAcc)
       IN CommitScan(slot, r2)
    /\ UNCHANGED <<productVars, pending, customCategorySettings, probeVars>>

\* storage.savePendingReconciliation(record) has stored the record; the
\* handler answers needsReview
SaveStep(slot) ==
    /\ reqs[slot].pc = "save"
    /\ LET r == reqs[slot]
       IN /\ pending' = savePendingReconciliation(pending,
                            [id |-> r.tempSessionId, period |-> r.period,
                             momenceData |-> r.momenceData, stripeData |-> r.stripeData,
                             newProductCount |-> Len(r.newProducts), status |-> "pending"])
          /\ reqs' = [reqs EXCEPT ![slot] = [r EXCEPT !.pc = "done", !.outcome = "needsReview"]]
    /\ UNCHANGED <<productVars, nextPendingId, customCategorySettings, sessionVars, probeVars>>

\* RowStep reading the category settings in force when the row is classified
RowStepLiveSettings(slot) ==
    /\ reqs[slot].pc = "row"
    /\ LET r == reqs[slot]
           row == r.momenceData[r.rowIdx]
           cat == categorizeItem(row.Item, customCategorySettings, products)
       IN Commit(slot, runProgress(r, r.rowIdx + 1, accumulateRow(r.acc, row, cat)))
    /\ UNCHANGED <<productVars, pendingVars, customCategorySettings, probeVars>>

\* processReconciliation: storage.getProductByName answers inside categorizeItem
\* for the row the loop is at; the loop goes on to its next database read
RowStep(slot) ==
    /\ reqs[slot].pc = "row"
    /\ LET r == reqs[slot]
           row == r.momenceData[r.rowIdx]
           cat == categorizeItem(row.Item, r.customCategories, products)
       IN Commit(slot, runProgress(r, r.rowIdx + 1, accumulateRow(r.acc, row, cat)))
    /\ UNCHANGED <<productVars, pendingVars, customCategorySettings, probeVars>>

\* POST /api/reconcile/continue/:tempSessionId arrives
StartContinue(slot, tempSessionId) ==
    /\ CanStart(slot)
    /\ reqs' = [reqs EXCEPT ![slot] =
                  [IdleRequest EXCEPT !.kind = "continue", !.pc = "get",
                                      !.tempSessionId = tempSessionId,
                                      !.startedAfter = AnsweredRequests]]
    /\ UNCHANGED <<productVars, pendingVars, customCategorySettings, sessionVars, probeVars>>

\* GetStep without `if (!pendingSession) return res.status(404)`
GetStepUnchecked(slot) ==
    /\ reqs[slot].pc = "get"
    /\ LET r == reqs[slot]
           pendingSession == getPendingReconciliation(pending, r.tempSessionId)
       IN reqs' = [reqs EXCEPT ![slot] =
                     IF pendingSession = NoPending
                     THEN [r EXCEPT !.pc = "delete"]
                     ELSE [r EXCEPT !.pc = "delete",
                                    !.momenceData = pendingSession.momenceData,
                                    !.stripeData = pendingSession.stripeData,
                                    !.period = pendingSession.period]]
    /\ UNCHANGED <<productVars, pendingVars, customCategorySettings, sessionVars, probeVars>>

\* storage.getPendingReconciliation answers: 404, or the rows are parsed and
\* storage.deletePendingReconciliation is called
GetStep(slot) ==
    /\ reqs[slot].pc = "get"
    /\ LET r == reqs[slot]
           pendingSession == getPendingReconciliation(pending, r.tempSessionId)
       IN reqs' = [reqs EXCEPT ![slot] =
                     IF pendingSession = NoPending
                     THEN [r EXCEPT !.pc = "done", !.outcome = "notFound"]
                     ELSE [r EXCEPT !.pc = "delete",
                                    !.momenceData = pendingSession.momenceData,
                                    !.stripeData = pendingSession.stripeData,
                                    !.period = pendingSession.period]]
    /\ UNCHANGED <<productVars, pendingVars, customCategorySettings, sessionVars, probeVars>>

\* storage.deletePendingReconciliation has deleted the record; the handler
\* reads the category settings and enters processReconciliation
DeleteStep(slot) ==
    /\ reqs[slot].pc = "delete"
    /\ pending' = deletePendingReconciliation(pending, reqs[slot].tempSessionId)
    /\ Commit(slot, runProgress([reqs[slot] EXCEPT
                                    !.customCategories = customCategorySettings,
                                    !.deletedPending = TRUE],
                                1, EmptyAcc))
    /\ UNCHANGED <<productVars, nextPendingId, customCategorySettings, probeVars>>

\* Discard with a delete that has no `where id = ...`
DiscardAll(id) ==
    /\ getPendingReconciliation(pending, id) # NoPending
    /\ pending' = {}
    /\ UNCHANGED <<productVars, nextPendingId, customCategorySettings, sessionVars, reqs,
                   probeVars>>

\* DELETE /api/pending-reconciliations/:id
Discard(id) ==
    /\ getPendingReconciliation(pending, id) # NoPending
    /\ pending' = deletePendingReconciliation(pending, id)
    /\ UNCHANGED <<productVars, nextPendingId, customCategorySettings, sessionVars, reqs,
                   probeVars>>

\* POST /api/settings/categories and POST /api/settings/categories/reset
SaveCategorySettings(settings) ==
    /\ customCategorySettings # settings
    /\ customCategorySettings' = settings
    /\ UNCHANGED <<productVars, pendingVars, sessionVars, reqs, probeVars>>

\* `if (!productData.itemName || !productData.category) continue`: the index of
\* the first entry from n on that the loop does not skip
RECURSIVE nextBatchEntry(_, _)
nextBatchEntry(batch, n) ==
    IF n > Len(batch) THEN n
    ELSE IF batch[n].itemName = "" \/ batch[n].category = "" THEN nextBatchEntry(batch, n + 1)
    ELSE n

\* the batch loop from entry n on, up to its next database call
batchProgress(r, n) ==
    LET k == nextBatchEntry(r.batch, n)
    IN IF k > Len(r.batch)
       THEN [r EXCEPT !.pc = "done", !.outcome = "saved", !.batchIdx = k]
       ELSE [r EXCEPT !.pc = "batchGet", !.batchIdx = k]

\* POST /api/products/batch arrives with an array of classifications
StartBatch(slot, batch) ==
    /\ CanStart(slot)
    /\ reqs' = [reqs EXCEPT ![slot] =
                  batchProgress([IdleRequest EXCEPT !.kind = "batch", !.batch = batch,
                                                    !.startedAfter = AnsweredRequests], 1)]
    /\ UNCHANGED <<productVars, pendingVars, customCategorySettings, sessionVars, probeVars>>

\* storage.getProductByName answers for the entry the loop is at
BatchGetStep(slot) ==
    /\ reqs[slot].pc = "batchGet"
    /\ LET r == reqs[slot]
       IN reqs' = [reqs EXCEPT ![slot] =
                     [r EXCEPT !.pc = "batchWrite",
                               !.existing = getProductByName(products,
                                                             r.batch[r.batchIdx].itemName)]]
    /\ UNCHANGED <<productVars, pendingVars, customCategorySettings, sessionVars, probeVars>>

\* storage.updateProduct or storage.saveProduct takes effect; an insert of an
\* item_name the table holds by now violates the unique constraint and the
\* handler answers 500
BatchWriteStep(slot) ==
    /\ reqs[slot].pc = "batchWrite"
    /\ LET r == reqs[slot]
           productData == r.batch[r.batchIdx]
       IN IF r.existing # NoProduct
          THEN /\ products' = updateProduct(products, r.existing, productData)
               /\ nextProductId' = nextProductId
               /\ reqs' = [reqs EXCEPT ![slot] =
                             batchProgress(
                                [r EXCEPT !.saved =
                                    IF \E p \in products : p.id = r.existing.id
                                    THEN @ + 1 ELSE @],
                                r.batchIdx + 1)]
          ELSE IF getProductByName(products, productData.itemName) # NoProduct
          THEN /\ UNCHANGED products
               /\ nextProductId' = nextProductId + 1
               /\ reqs' = [reqs EXCEPT ![slot] = [r EXCEPT !.pc = "done", !.outcome = "error"]]
          ELSE /\ products' = saveProduct(products, nextProductId, productData)
               /\ nextProductId' = nextProductId + 1
               /\ reqs' = [reqs EXCEPT ![slot] =
                             batchProgress([r EXCEPT !.saved = @ + 1], r.batchIdx + 1)]
    /\ UNCHANGED <<pendingVars, customCategorySettings, sessionVars, probeVars>>

\* the database call a handler awaits is rejected: the handler's catch block
\* answers 500
StorageFailure(slot) ==
    /\ reqs[slot].pc \in {"scan", "save", "row", "get", "delete", "batchGet", "batchWrite"}
    /\ reqs' = [reqs EXCEPT ![slot] = [@ EXCEPT !.pc = "done", !.outcome = "error",
                                                !.failed = TRUE]]
    /\ UNCHANGED <<productVars, pendingVars, customCategorySettings, sessionVars, probeVars>>

-----------------------------------------------------------------------------
(* Product memory contents and uploads the specifications start from.      *)

ProductRow(id, itemName, category, btwRate, twinfieldAccount, isReviewed) ==
    [id |-> id, itemName |-> itemName, category |-> category, btwRate |-> btwRate,
     twinfieldAccount |-> twinfieldAccount, hasAccrual |-> FALSE, hasSpread |-> FALSE,
     isReviewed |-> isReviewed, transactionCount |-> 0]

ProductYoga == ProductRow(1, "Yoga Flow", "Workshops & Events", 21, "8150", TRUE)
ProductMembership == ProductRow(2, "Monthly Membership", "Overig", 21, "", TRUE)
ProductGift == ProductRow(3, "GIFT2024XY", "Omzet Keuken", 9, "8001", FALSE)
ProductMystery == ProductRow(4, "Mystery Item", "Opleidingen", 21, "8300", TRUE)

\* the serial has passed every id of the table
SerialAfter(table) ==
    1 + (IF table = {} THEN 0 ELSE CHOOSE n \in {p.id : p \in table} :
                                       \A p \in table : p.id <= n)

RunMemories ==
    {{}, {ProductYoga, ProductGift},
     {ProductYoga, ProductMembership, ProductGift, ProductMystery}}

Period == "2024-01"

\* the uploads: the rows Papa.parse returned for the two files
MomenceUploads == InjectiveSeqs(MomenceRowUniverse, MaxMomenceRows)

StripeUploads == InjectiveSeqs(StripeRowUniverse, MaxStripeRows)

NoResult == [category |-> ""]

NotParsed == [parsed |-> FALSE, value |-> 0]

NoObservation == [request |-> "none"]

TypeInit ==
    /\ pending = {}
    /\ nextPendingId = 1
    /\ customCategorySettings = NullSettings
    /\ sessions = <<>>
    /\ comparisons = <<>>
    /\ paymentMethods = <<>>
    /\ categories = <<>>
    /\ categoryItems = <<>>
    /\ reqs = [slot \in Slots |-> IdleRequest]
    /\ clsItem = ""
    /\ clsSettings = NullSettings
    /\ clsResult = NoResult
    /\ numValue = ""
    /\ numResult = NotParsed
    /\ observed = NoObservation

-----------------------------------------------------------------------------
(* One reconcile request over every upload of at most MaxMomenceRows and   *)
(* MaxStripeRows rows, the product memory left as it is.                   *)

InitRun ==
    /\ TypeInit
    /\ products \in RunMemories
    /\ nextProductId = SerialAfter(products)

NextRun ==
    \/ /\ CanStart(1)
       /\ \E momenceData \in MomenceUploads, stripeData \in StripeUploads,
             skipReview \in BOOLEAN :
               StartReconcile(1, momenceData, stripeData, Period, skipReview)
    \/ ScanStep(1)
    \/ SaveStep(1)
    \/ RowStep(1)
    \/ StorageFailure(1)
    \/ \E settings \in SettingsUniverse : SaveCategorySettings(settings)

SpecRun == InitRun /\ [][NextRun]_vars

-----------------------------------------------------------------------------
(* Properties of a reconciliation, stated on the stored session and its    *)
(* records and on the upload of the request that created them.             *)

RECURSIVE SeqSum(_)
SeqSum(xs) == IF Len(xs) = 0 THEN 0 ELSE Head(xs) + SeqSum(Tail(xs))

\* the request whose run created the session
RequestOf(session) == reqs[session.request]

SessionIds == 1..Len(sessions)

\* the status the matching rule assigns to a feed-A total and a feed-B gross,
\* in thousandths
StatusOfTotals(totalA, grossB) ==
    LET d == IF totalA >= grossB THEN totalA - grossB ELSE grossB - totalA
    IN IF totalA > 0 /\ grossB = 0 THEN "only_in_momence"
       ELSE IF totalA = 0 /\ grossB > 0 THEN "only_in_stripe"
       ELSE IF d < 1000 THEN "match"
       ELSE IF d < 5000 THEN "small_diff"
       ELSE "large_diff"

Allowlist == {"Card", "iDEAL", "SEPA Direct Debit", "Card reader"}

Reconcilable(channel) ==
    \E entry \in Allowlist : includes(toLowerCase(channel), toLowerCase(entry))

ReconcilableChannels == {m \in MethodUniverse : Reconcilable(m)}

IdentityOfA(row) == normalizeEmailTable[row.CustomerEmail]

FeedAIdentities(momenceData) ==
    {IdentityOfA(momenceData[i]) :
        i \in {k \in 1..Len(momenceData) :
                 /\ momenceData[k].PaymentMethod \in ReconcilableChannels
                 /\ IdentityOfA(momenceData[k]) # ""}}

IdentityOfB(row) ==
    normalizeEmailTable[IF row.customer_email # "" THEN row.customer_email
                        ELSE row.CustomerEmailOld]

IsChargeRow(row) ==
    \/ toLowerCase(row.reporting_category) = "charge"
    \/ toLowerCase(row.Status) = "paid"

ChargeRows == {row \in StripeRowUniverse : IsChargeRow(row)}

FeedBIdentities(stripeData) ==
    {IdentityOfB(stripeData[i]) :
        i \in {k \in 1..Len(stripeData) :
                 stripeData[k] \in ChargeRows /\ IdentityOfB(stripeData[k]) # ""}}

DenyList == {"info@denieuweyogaschool.nl"}

\* C8: the comparison list of a session holds exactly one record for each
\* identity of the feed-A or the feed-B accumulator that is not on the deny-list,
\* and no other record.
C8_OneRecordPerIdentity ==
    \A id \in SessionIds :
        LET r == RequestOf(sessions[id])
            emails == [i \in 1..Len(comparisons[id]) |-> comparisons[id][i].customerEmail]
        IN /\ \A i, j \in 1..Len(emails) : emails[i] = emails[j] => i = j
           /\ {emails[i] : i \in 1..Len(emails)} =
                 (FeedAIdentities(r.momenceData) \cup FeedBIdentities(r.stripeData))
                    \ DenyList

\* a session with an identity of both feeds, one of feed B only, and a
\* deny-listed identity among the uploaded rows
C8_Witness ==
    \E id \in SessionIds :
        LET r == RequestOf(sessions[id])
        IN /\ FeedAIdentities(r.momenceData) \cap FeedBIdentities(r.stripeData) # {}
           /\ DenyList \cap (FeedAIdentities(r.momenceData)
                               \cup FeedBIdentities(r.stripeData)) # {}
           /\ Len(comparisons[id]) >= 1

\* C9: the comparison list of every session is in order of non-increasing
\* absolute difference.
C9_SortedByAbsDifference ==
    \A id \in SessionIds : \A i \in 1..(Len(comparisons[id]) - 1) :
        Abs(comparisons[id][i].difference) >= Abs(comparisons[id][i + 1].difference)

\* a session whose largest discrepancy belongs to the identity met last
C9_Witness ==
    \E id \in SessionIds :
        LET r == RequestOf(sessions[id])
        IN /\ Len(comparisons[id]) = 2
           /\ Abs(comparisons[id][1].difference) > Abs(comparisons[id][2].difference)
           /\ Len(r.acc.momenceByEmail) >= 1
           /\ r.acc.momenceByEmail[1].key = comparisons[id][2].customerEmail

\* the sum of the amounts of the rows of momenceData that satisfy keep
AmountOfA(momenceData, keep) ==
    SeqSum([i \in 1..Len(momenceData) |->
               IF keep[i] THEN parseNumberTable[momenceData[i].SaleValue] ELSE 0])

\* C10: the feed-A total of an identity is the sum of the amounts of its rows
\* whose channel contains, case-insensitively, an allowlist entry; the rows of
\* every other channel add up to the non-reconcilable total and enter no
\* identity total.
C10_ChannelAllowlist ==
    \A id \in SessionIds :
        LET r == RequestOf(sessions[id])
            rows == r.momenceData
        IN /\ sessions[id].nonStripeTotal =
                 AmountOfA(rows, [i \in 1..Len(rows) |->
                                     rows[i].PaymentMethod \notin ReconcilableChannels])
           /\ \A k \in 1..Len(comparisons[id]) :
                 comparisons[id][k].momenceTotal =
                    AmountOfA(rows, [i \in 1..Len(rows) |->
                                 /\ rows[i].PaymentMethod \in ReconcilableChannels
                                 /\ IdentityOfA(rows[i]) =
                                        comparisons[id][k].customerEmail])
           /\ sessions[id].momenceTotal =
                 AmountOfA(rows, [i \in 1..Len(rows) |->
                                     /\ rows[i].PaymentMethod \in ReconcilableChannels
                                     /\ IdentityOfA(rows[i]) # ""])

\* a session fed a row on an allowlisted channel written in another case and a
\* row of the same identity on a channel outside the allowlist
C10_Witness ==
    \E id \in SessionIds :
        LET rows == RequestOf(sessions[id]).momenceData
        IN /\ \E i \in 1..Len(rows) :
                 /\ rows[i].PaymentMethod \notin Allowlist
                 /\ rows[i].PaymentMethod \in ReconcilableChannels
           /\ \E i \in 1..Len(rows) : rows[i].PaymentMethod \notin ReconcilableChannels
           /\ sessions[id].nonStripeTotal > 0
           /\ sessions[id].momenceTotal > 0

NonStripeChannels ==
    {NON_STRIPE_PAYMENT_METHODS[i] : i \in 1..Len(NON_STRIPE_PAYMENT_METHODS)}

\* C11 (as claimed): the feed-A rows paid by "Class Pass", "urban-sports-club"
\* or "Gift card" enter no identity total, their amounts are part of the
\* non-Stripe total, and the payment method record of each of these channels
\* has goesThruStripe = 0.
C11_NonStripeChannels ==
    \A id \in SessionIds :
        LET rows == RequestOf(sessions[id]).momenceData
        IN /\ \A k \in 1..Len(comparisons[id]) :
                 comparisons[id][k].momenceTotal =
                    AmountOfA(rows, [i \in 1..Len(rows) |->
                                 /\ rows[i].PaymentMethod \in ReconcilableChannels
                                 /\ rows[i].PaymentMethod \notin NonStripeChannels
                                 /\ IdentityOfA(rows[i]) =
                                        comparisons[id][k].customerEmail])
           /\ sessions[id].nonStripeTotal =
                 AmountOfA(rows, [i \in 1..Len(rows) |->
                                     \/ rows[i].PaymentMethod \in NonStripeChannels
                                     \/ rows[i].PaymentMethod \notin ReconcilableChannels])
           /\ \A k \in 1..Len(paymentMethods[id]) :
                 paymentMethods[id][k].paymentMethod \in NonStripeChannels
                    => paymentMethods[id][k].goesThruStripe = 0

\* a session fed a "Gift card" row of a known identity, whose payment method
\* record says it settles via Stripe
C11_Witness ==
    \E id \in SessionIds :
        LET rows == RequestOf(sessions[id]).momenceData
        IN /\ \E i \in 1..Len(rows) :
                 rows[i].PaymentMethod = "Gift card" /\ IdentityOfA(rows[i]) # ""
           /\ \E k \in 1..Len(paymentMethods[id]) :
                 /\ paymentMethods[id][k].paymentMethod = "Gift card"
                 /\ paymentMethods[id][k].goesThruStripe = 1
           /\ sessions[id].nonStripeTotal = 0

AllRows(rows) == [i \in 1..Len(rows) |-> TRUE]

\* C12: in every session the transaction counts of the category records sum to
\* the number of feed-A rows and their amounts to the sum of all row amounts,
\* whatever the channel or identity of a row; each category has one item
\* breakdown, whose amounts and counts sum to the category's amount and count.
C12_EveryRowInOneCategory ==
    \A id \in SessionIds :
        LET rows == RequestOf(sessions[id]).momenceData
            cats == categories[id]
            items == categoryItems[id]
        IN /\ SeqSum([i \in 1..Len(cats) |-> cats[i].transactionCount]) = Len(rows)
           /\ SeqSum([i \in 1..Len(cats) |-> cats[i].totalAmount])
                 = AmountOfA(rows, AllRows(rows))
           /\ \A i, j \in 1..Len(cats) : cats[i].category = cats[j].category => i = j
           /\ \A i \in 1..Len(cats) :
                 /\ Cardinality({k \in 1..Len(items) : items[k].key = cats[i].category}) = 1
                 /\ \A k \in 1..Len(items) :
                       items[k].key = cats[i].category =>
                          /\ SeqSum([j \in 1..Len(items[k].val) |-> items[k].val[j].amount])
                                = cats[i].totalAmount
                          /\ SeqSum([j \in 1..Len(items[k].val) |-> items[k].val[j].count])
                                = cats[i].transactionCount

\* a session fed a row without description or identity and a row of a channel
\* outside the allowlist, in two categories
C12_Witness ==
    \E id \in SessionIds :
        LET rows == RequestOf(sessions[id]).momenceData
        IN /\ \E i \in 1..Len(rows) : rows[i].Item = "" /\ IdentityOfA(rows[i]) = ""
           /\ \E i \in 1..Len(rows) : rows[i].PaymentMethod \notin ReconcilableChannels
           /\ Len(categories[id]) = 2

\* C13 (as claimed): the feed-A total of a session is the total of its rows on
\* reconcilable channels, the non-reconcilable total that of all other rows,
\* and the two add up to the sum of the amounts of all feed-A rows.
C13_TotalsPartitionRows ==
    \A id \in SessionIds :
        LET rows == RequestOf(sessions[id]).momenceData
        IN /\ sessions[id].momenceTotal =
                 AmountOfA(rows, [i \in 1..Len(rows) |->
                                     rows[i].PaymentMethod \in ReconcilableChannels])
           /\ sessions[id].nonStripeTotal =
                 AmountOfA(rows, [i \in 1..Len(rows) |->
                                     rows[i].PaymentMethod \notin ReconcilableChannels])
           /\ sessions[id].momenceTotal + sessions[id].nonStripeTotal
                 = AmountOfA(rows, AllRows(rows))

\* a session fed a row on a reconcilable channel that names no identity: its
\* amount is in neither total
C13_Witness ==
    \E id \in SessionIds :
        LET rows == RequestOf(sessions[id]).momenceData
        IN /\ \E i \in 1..Len(rows) :
                 /\ rows[i].PaymentMethod \in ReconcilableChannels
                 /\ IdentityOfA(rows[i]) = ""
                 /\ parseNumberTable[rows[i].SaleValue] # 0
           /\ sessions[id].momenceTotal + sessions[id].nonStripeTotal
                 < AmountOfA(rows, AllRows(rows))

\* the number of rows of the upload paid by channel m
RowsPaidBy(rows, m) == Cardinality({i \in 1..Len(rows) : rows[i].PaymentMethod = m})

\* C14: no comparison record of any session has the empty identity as its key,
\* whatever the e-mail fields of the rows of the two feeds hold, while the
\* feed-A rows without identity are counted in the payment method records and
\* in the category records.
C14_EmptyIdentityNeverKey ==
    \A id \in SessionIds :
        LET rows == RequestOf(sessions[id]).momenceData
        IN /\ \A k \in 1..Len(comparisons[id]) : comparisons[id][k].customerEmail # ""
           /\ \A i \in 1..Len(rows) :
                 \E k \in 1..Len(paymentMethods[id]) :
                    /\ paymentMethods[id][k].paymentMethod =
                          (IF rows[i].PaymentMethod = "" THEN "Onbekend"
                           ELSE rows[i].PaymentMethod)
                    /\ paymentMethods[id][k].transactionCount =
                          RowsPaidBy(rows, rows[i].PaymentMethod)
           /\ SeqSum([i \in 1..Len(categories[id]) |-> categories[id][i].transactionCount])
                 >= Cardinality({i \in 1..Len(rows) : IdentityOfA(rows[i]) = ""})

\* a session fed a feed-A row without e-mail and a feed-B charge whose e-mail
\* is whitespace only
C14_Witness ==
    \E id \in SessionIds :
        LET r == RequestOf(sessions[id])
        IN /\ \E i \in 1..Len(r.momenceData) :
                 /\ r.momenceData[i].CustomerEmail = ""
                 /\ r.momenceData[i].PaymentMethod \in ReconcilableChannels
           /\ \E i \in 1..Len(r.stripeData) :
                 /\ r.stripeData[i] \in ChargeRows
                 /\ r.stripeData[i].customer_email # ""
                 /\ IdentityOfB(r.stripeData[i]) = ""
           /\ Len(paymentMethods[id]) >= 1

\* C18 (as claimed): a product memory record counts at least the rows of its
\* description in the feed-A uploads of the completed runs.
C18_RunsUpdateProductMemory ==
    \A p \in products :
        p.transactionCount >=
            SeqSum([id \in SessionIds |->
                      Cardinality({i \in 1..Len(RequestOf(sessions[id]).momenceData) :
                                     RequestOf(sessions[id]).momenceData[i].Item = p.itemName})])

\* a completed run whose upload holds a remembered description, the record
\* still counting no transaction
C18_Witness ==
    \E id \in SessionIds : \E p \in products :
        /\ \E i \in 1..Len(RequestOf(sessions[id]).momenceData) :
              RequestOf(sessions[id]).momenceData[i].Item = p.itemName
        /\ p.isReviewed
        /\ p.transactionCount = 0

-----------------------------------------------------------------------------
(* The review gate of POST /api/reconcile.                                 *)

\* the new-item candidates of an upload: its distinct non-empty item
\* descriptions that the product memory holds no record of
Candidates(momenceData, table) ==
    ({momenceData[i].Item : i \in 1..Len(momenceData)} \ {""})
        \ {p.itemName : p \in table}

Suspended(r) == r.pc = "done" /\ r.outcome = "needsReview"

SessionsOf(slot) == {id \in SessionIds : sessions[id].request = slot}

PendingOf(r) == {p \in pending : p.id = r.tempSessionId}

\* the gate as the specification words it, for an answered reconcile request
GateHolds(r, slot) ==
    /\ Suspended(r) <=> (~r.skipReview /\ Candidates(r.momenceData, products) # {})
    /\ Suspended(r) =>
          /\ Cardinality(pending) = 1
          /\ \A p \in pending :
                /\ p.id = r.tempSessionId
                /\ p.momenceData = r.momenceData
                /\ p.stripeData = r.stripeData
                /\ p.newProductCount = Cardinality(Candidates(r.momenceData, products))
          /\ SessionsOf(slot) = {}
    /\ ~Suspended(r) =>
          /\ Cardinality(SessionsOf(slot)) = 1
          /\ pending = {}

-----------------------------------------------------------------------------
(* The classifier on its own: descriptions are classified against a        *)
(* product memory drawn from a bounded set and the settings in force.      *)

RememberedItems == {"Monthly Membership", "GIFT2024XY", "Mystery Item"}

ClassifierMemories ==
    {{}} \cup
    {{ProductRow(1, d, c, r, t, a)} :
        d \in RememberedItems, c \in {"Workshops & Events", "Overig"},
        r \in {0, 21}, t \in {"", "8150"}, a \in BOOLEAN}

InitClassify ==
    /\ TypeInit
    /\ products \in ClassifierMemories
    /\ nextProductId = SerialAfter(products)

\* categorizeItem(d, customCategories) with the settings and the memory in force
Classify(d) ==
    /\ clsItem' = d
    /\ clsSettings' = customCategorySettings
    /\ clsResult' = categorizeItem(d, customCategorySettings, products)
    /\ UNCHANGED <<productVars, pendingVars, customCategorySettings, sessionVars, reqs,
                   numValue, numResult, observed>>

NextClassify ==
    \/ \E d \in ClassifierItems : Classify(d)
    \/ \E settings \in SettingsUniverse : SaveCategorySettings(settings)

SpecClassify == InitClassify /\ [][NextClassify]_vars

Classified == clsResult # NoResult

ApprovedRecords == {p \in products : p.itemName = clsItem /\ p.isReviewed}

\* what the keyword rules answer for the description classified, under the
\* settings passed
KeywordAnswer == keywordTable[clsItem][clsSettings]

\* the statement as claimed: an approved record for the exact description gives
\* its stored category, tax rate and ledger code; without one the keyword rules
\* (and the gift-card code pattern) decide
C6_ApprovedRecordVerbatim ==
    Classified =>
        /\ \A p \in ApprovedRecords :
              /\ clsResult.category = p.category
              /\ clsResult.btwRate = p.btwRate
              /\ clsResult.twinfieldAccount = p.twinfieldAccount
        /\ ApprovedRecords = {} => clsResult = KeywordAnswer

\* C6: an approved record for the exact description gives its stored category
\* and tax rate, and its stored ledger code when it stores one (8999 when it
\* stores none), whatever the keyword rules or the gift-card code pattern say;
\* a record that is not approved never overrides the keyword rules.
C6_ApprovedRecordWins ==
    Classified =>
        /\ \A p \in ApprovedRecords :
              /\ clsResult.category = p.category
              /\ clsResult.btwRate = p.btwRate
              /\ clsResult.twinfieldAccount =
                    (IF p.twinfieldAccount = "" THEN "8999" ELSE p.twinfieldAccount)
        /\ ApprovedRecords = {} => clsResult = KeywordAnswer

\* an approved record that contradicts the gift-card code pattern has been applied
C6_Witness ==
    /\ Classified
    /\ clsItem = "GIFT2024XY"
    /\ \E p \in ApprovedRecords :
          p.category = "Workshops & Events" /\ p.btwRate = 21 /\ p.twinfieldAccount = "8150"
    /\ clsResult.category = "Workshops & Events"
    /\ KeywordAnswer.category = "Gift Cards"

\* the keywords of the rule of category c under the settings in force
RuleKeywords(c, settings) ==
    IF settings.isNull
    THEN {REVENUE_CATEGORIES[c].keywords[i] : i \in 1..Len(REVENUE_CATEGORIES[c].keywords)}
    ELSE IF \E i \in 1..Len(settings.list) : settings.list[i].name = c
    THEN LET e == settings.list[CHOOSE i \in 1..Len(settings.list) :
                                    /\ settings.list[i].name = c
                                    /\ \A j \in 1..(i - 1) : settings.list[j].name # c]
         IN {e.keywords[i] : i \in 1..Len(e.keywords)}
    ELSE {}

\* the exclusion overrides of the rules
RuleExcluded(c, d) ==
    \/ c = "Rittenkaarten" /\ includes(toLowerCase(d), "single")
    \/ c = "Abonnementen"
         /\ (includes(toLowerCase(d), "year") \/ includes(toLowerCase(d), "jaar"))

RuleMatches(c, d, settings) ==
    /\ \E k \in RuleKeywords(c, settings) : includes(toLowerCase(d), toLowerCase(k))
    /\ ~RuleExcluded(c, d)

RankedCategories == {c \in DOMAIN REVENUE_CATEGORIES : c # "Overig"}

\* the matching rule of lowest priority rank, or the catch-all
FirstByRank(d, settings) ==
    LET M == {c \in RankedCategories : RuleMatches(c, d, settings)}
    IN IF M = {} THEN "Overig"
       ELSE CHOOSE c \in M :
              \A o \in M : REVENUE_CATEGORIES[c].priority <= REVENUE_CATEGORIES[o].priority

FirstByRankTable ==
    [d \in ClassifierItems |-> [settings \in SettingsUniverse |-> FirstByRank(d, settings)]]

\* C7: without an approved record, the category of a description is that of the
\* matching keyword rule of lowest priority rank (the catch-all when no rule
\* matches), except that a description that is a 6 to 10 character code of
\* capitals and digits is a gift card.
C7_FirstRuleByRankWins ==
    (Classified /\ ApprovedRecords = {} /\ clsItem # "") =>
        clsResult.category =
            (IF isGiftCardCode(clsItem) THEN "Gift Cards"
             ELSE FirstByRankTable[clsItem][clsSettings])

\* a description matching the rank-1 rule and the keywords of annual
\* memberships has been classified by the keyword rules
C7_Witness ==
    /\ Classified
    /\ ApprovedRecords = {}
    /\ clsItem = "Online Year Membership"
    /\ FirstByRankTable[clsItem][clsSettings] = "Online/Livestream"

-----------------------------------------------------------------------------
(* The review workflow: up to MaxRequests requests (reconcile, batch save  *)
(* of classifications, continue) whose database calls interleave, the      *)
(* discarding of pending reconciliations and changes of the settings.      *)

BatchEntry(itemName, category, btwRate, twinfieldAccount) ==
    [itemName |-> itemName, category |-> category, btwRate |-> btwRate,
     twinfieldAccount |-> twinfieldAccount, hasAccrual |-> FALSE, hasSpread |-> FALSE,
     transactionCount |-> 1]

WorkflowBatches ==
    {<<BatchEntry("Mystery Item", "Workshops & Events", 9, "8150")>>,
     <<BatchEntry("Mystery Item", "Overig", Undefined, "")>>,
     <<BatchEntry("Yoga Flow", "", 9, "8120"),
       BatchEntry("Yoga Flow", "Single Classes", 9, "8120")>>}

WorkflowUploads == {<<RowMystery>>, <<RowYogaIdeal, RowMystery>>}

WorkflowStripe == <<ChargeAlice49>>

WorkflowMemories == {{}, {ProductYoga}}

\* the identifiers a client can name: those handed out, and one never handed out
KnownPendingIds == 0..(nextPendingId - 1)

Init ==
    /\ TypeInit
    /\ products \in WorkflowMemories
    /\ nextProductId = SerialAfter(products)

Next ==
    \/ \E slot \in Slots :
          \/ /\ CanStart(slot)
             /\ \E momenceData \in WorkflowUploads, skipReview \in BOOLEAN :
                   StartReconcile(slot, momenceData, WorkflowStripe, Period, skipReview)
          \/ ScanStep(slot)
          \/ SaveStep(slot)
          \/ RowStep(slot)
          \/ \E id \in KnownPendingIds : StartContinue(slot, id)
          \/ GetStep(slot)
          \/ DeleteStep(slot)
          \/ \E batch \in WorkflowBatches : StartBatch(slot, batch)
          \/ BatchGetStep(slot)
          \/ BatchWriteStep(slot)
          \/ StorageFailure(slot)
    \/ \E id \in KnownPendingIds : Discard(id)

Spec == Init /\ [][Next]_vars

Answered(r) == r.pc = "done"

Resumes == {slot \in Slots : reqs[slot].kind = "continue"}

\* C2: an answered resume that has deleted its pending reconciliation has
\* created a session (a fortiori: whenever a resume has deleted the pending
\* record, a session of that run exists).
C2_PendingRemovedOnlyWithSession ==
    \A slot \in Resumes :
        Answered(reqs[slot]) /\ reqs[slot].deletedPending => SessionsOf(slot) # {}

\* a resume has deleted its pending reconciliation and been answered
C2_Witness ==
    \E slot \in Resumes :
        /\ Answered(reqs[slot])
        /\ reqs[slot].deletedPending
        /\ reqs[slot].outcome = "session"

\* the sessions that resumes of the pending reconciliation id have created
SessionsResumedFrom(id) ==
    {sid \in SessionIds :
        /\ RequestOf(sessions[sid]).kind = "continue"
        /\ RequestOf(sessions[sid]).tempSessionId = id}

\* C3: the resumes of one pending reconciliation create at most one session,
\* however they interleave.
C3_AtMostOneSessionPerPending ==
    \A id \in KnownPendingIds : Cardinality(SessionsResumedFrom(id)) <= 1

\* two resumes of one pending reconciliation were in flight together
C3_Witness ==
    \E k1, k2 \in Resumes :
        /\ k1 # k2
        /\ reqs[k1].tempSessionId = reqs[k2].tempSessionId
        /\ k1 \notin reqs[k2].startedAfter
        /\ Answered(reqs[k1])
        /\ Answered(reqs[k2])

\* the category the batch submits for description d: that of its last entry
\* for d that the loop does not skip; "" when it has none
SubmittedCategory(batch, d) ==
    LET idx == {i \in 1..Len(batch) :
                  batch[i].itemName = d /\ batch[i].category # ""}
    IN IF idx = {} THEN ""
       ELSE batch[CHOOSE i \in idx : \A j \in idx : j <= i].category

RowsOf(momenceData, d) == {i \in 1..Len(momenceData) : momenceData[i].Item = d}

\* the categories of session sid whose item breakdown lists description d
CategoriesListing(sid, d) ==
    {categoryItems[sid][i].key :
        i \in {k \in 1..Len(categoryItems[sid]) :
                 \E j \in 1..Len(categoryItems[sid][k].val) :
                    categoryItems[sid][k].val[j].item = d}}

\* the number of rows session sid counts for description d within category c
CountWithin(sid, c, d) ==
    SeqSum([i \in 1..Len(categoryItems[sid]) |->
              IF categoryItems[sid][i].key # c THEN 0
              ELSE SeqSum([j \in 1..Len(categoryItems[sid][i].val) |->
                             IF categoryItems[sid][i].val[j].item = d
                             THEN categoryItems[sid][i].val[j].count ELSE 0])])

\* the candidates the scan of request r found
CandidatesFound(r) == {r.newProducts[i].itemName : i \in 1..Len(r.newProducts)}

\* slot a suspended on candidate d, batch b submitted category c for d after
\* that, and resume k of a's pending reconciliation, begun after b was
\* answered, has created a session
ReviewedAndResumed(a, b, k, d) ==
    /\ reqs[a].kind = "reconcile"
    /\ Suspended(reqs[a])
    /\ d \in CandidatesFound(reqs[a])
    /\ reqs[b].kind = "batch"
    /\ reqs[b].outcome = "saved"
    /\ a \in reqs[b].startedAfter
    /\ SubmittedCategory(reqs[b].batch, d) # ""
    /\ reqs[k].kind = "continue"
    /\ reqs[k].tempSessionId = reqs[a].tempSessionId
    /\ b \in reqs[k].startedAfter
    /\ reqs[k].outcome = "session"

\* C5: when a run suspended on a new description d, a classification of d as
\* category c was then saved, and the pending run was then resumed and created
\* a session, that session accumulates every feed-A row of description d under
\* category c and under no other category, the category summary has a record
\* of c, and the pending reconciliation is gone.
C5_ResumeReflectsClassification ==
    \A k \in Resumes :
        reqs[k].outcome = "session" =>
            \A a \in reqs[k].startedAfter, b \in reqs[k].startedAfter :
                \A d \in CandidatesFound(reqs[a]) :
                    ReviewedAndResumed(a, b, k, d) =>
                        LET c == SubmittedCategory(reqs[b].batch, d)
                            sid == reqs[k].sessionId
                        IN /\ sid \in SessionIds
                           /\ sessions[sid].request = k
                           /\ CategoriesListing(sid, d) = {c}
                           /\ CountWithin(sid, c, d) =
                                 Cardinality(RowsOf(reqs[a].momenceData, d))
                           /\ \E i \in 1..Len(categories[sid]) :
                                 /\ categories[sid][i].category = c
                                 /\ categories[sid][i].transactionCount
                                       >= CountWithin(sid, c, d)
                           /\ PendingOf(reqs[a]) = {}

\* the workflow has run its course with a category the keyword rules would
\* not have given
C5_Witness ==
    \E a, b, k \in Slots :
        /\ ReviewedAndResumed(a, b, k, "Mystery Item")
        /\ SubmittedCategory(reqs[b].batch, "Mystery Item") = "Workshops & Events"
        /\ keywordTable["Mystery Item"][NullSettings].category = "Overig"

-----------------------------------------------------------------------------
(* Resuming and discarding pending reconciliations.                        *)

\* what the service stores: product memory, pending reconciliations, settings,
\* sessions and their records
Stored == <<productVars, pendingVars, customCategorySettings, sessionVars>>

\* C15: when storage.getPendingReconciliation answers a resume whose identifier
\* names no stored pending reconciliation, the resume is answered not-found,
\* which is not the answer to a storage failure, it creates no session and
\* nothing stored changes; a resume is answered not-found in no other case.
C15_ResumeOfAbsentPending ==
    [][\A slot \in Slots :
          /\ ( /\ reqs[slot].kind = "continue"
               /\ reqs[slot].pc = "get"
               /\ reqs'[slot].pc # "get"
               /\ getPendingReconciliation(pending, reqs[slot].tempSessionId) = NoPending )
             => /\ reqs'[slot].pc = "done"
                /\ reqs'[slot].outcome = (IF reqs'[slot].failed THEN "error" ELSE "notFound")
                /\ UNCHANGED Stored
                /\ SessionsOf(slot)' = {}
          /\ ( /\ reqs[slot].outcome # "notFound"
               /\ reqs'[slot].outcome = "notFound" )
             => /\ reqs[slot].kind = "continue"
                /\ getPendingReconciliation(pending, reqs[slot].tempSessionId) = NoPending
      ]_vars

\* a resume of a pending reconciliation that another resume had already
\* consumed has been answered not-found
C15_Witness ==
    \E k1, k2 \in Resumes :
        /\ k1 # k2
        /\ reqs[k1].tempSessionId = reqs[k2].tempSessionId
        /\ reqs[k1].outcome = "session"
        /\ reqs[k2].outcome = "notFound"
        /\ k1 \in reqs[k2].startedAfter

\* C16: a step that removes a pending reconciliation without being a step of
\* a resume removes the one record named, leaves every other pending record as
\* it is, creates no session and leaves product memory unchanged.
C16_DiscardRemovesOnlyThatRecord ==
    [][(pending' # pending /\ reqs' = reqs) =>
          /\ \E id \in KnownPendingIds :
                /\ \E p \in pending : p.id = id
                /\ pending' = {p \in pending : p.id # id}
          /\ Cardinality(pending') = Cardinality(pending) - 1
          /\ UNCHANGED <<productVars, customCategorySettings, sessionVars>>
      ]_vars

\* a pending reconciliation has been discarded while another one is stored:
\* the request that stored it is suspended, no resume has deleted it
C16_Witness ==
    \E a \in Slots :
        /\ reqs[a].kind = "reconcile"
        /\ Suspended(reqs[a])
        /\ PendingOf(reqs[a]) = {}
        /\ \A k \in Resumes : reqs[k].tempSessionId # reqs[a].tempSessionId
        /\ pending # {}

-----------------------------------------------------------------------------
(* Review submissions on their own: up to MaxRequests POST                 *)
(* /api/products/batch requests whose database calls interleave.           *)

\* the decisions of a review: category, tax rate, ledger code and the
\* transaction count of the description in the upload under review
ReviewBatches ==
    {<<BatchEntry("GIFT2024XY", "Gift Cards", 0, "8900")>>,
     <<[BatchEntry("Mystery Item", "Workshops & Events", 9, "8150")
           EXCEPT !.transactionCount = 2]>>,
     <<BatchEntry("Yoga Flow", "Money Credits", 0, "8901"),
       BatchEntry("Mystery Item", "Opleidingen", 21, "8300")>>}

ReviewMemories ==
    {{}, {[ProductYoga EXCEPT !.transactionCount = 3]},
     {[ProductGift EXCEPT !.transactionCount = 1]}}

InitBatch ==
    /\ TypeInit
    /\ products \in ReviewMemories
    /\ nextProductId = SerialAfter(products)

NextBatch ==
    \E slot \in Slots :
        \/ \E batch \in ReviewBatches : StartBatch(slot, batch)
        \/ BatchGetStep(slot)
        \/ BatchWriteStep(slot)
        \/ StorageFailure(slot)

SpecBatch == InitBatch /\ [][NextBatch]_vars

RecordsOf(table, d) == {p \in table : p.itemName = d}

\* the product memory holds the decision dec for its description after the
\* write, given the product memory before the write
DecisionStored(dec, before, after) ==
    /\ Cardinality(RecordsOf(after, dec.itemName)) = 1
    /\ \A p \in RecordsOf(after, dec.itemName) :
          /\ p.isReviewed
          /\ p.category = dec.category
          /\ p.btwRate = dec.btwRate
          /\ p.twinfieldAccount = dec.twinfieldAccount
          /\ IF RecordsOf(before, dec.itemName) = {}
             THEN p.transactionCount = dec.transactionCount
             ELSE \A q \in RecordsOf(before, dec.itemName) :
                     p.transactionCount = q.transactionCount + dec.transactionCount

\* C17 (as claimed): when a review submission has written its decision for a
\* description, product memory holds exactly one record of the description,
\* approved, with the category, tax rate and ledger code of the decision and the
\* count c + n (n for a description without earlier record); product memory
\* never holds two records of one description.
C17_DecisionUpserted ==
    [][/\ \A slot \in Slots :
             (reqs[slot].pc = "batchWrite" /\ reqs'[slot].saved > reqs[slot].saved)
                => DecisionStored(reqs[slot].batch[reqs[slot].batchIdx], products, products')
       /\ \A p, q \in products' : p.itemName = q.itemName => p = q
      ]_vars

\* a submitted decision with tax rate 0 for a description without record has
\* been saved, and the record carries the default rate
C17_Witness ==
    \E slot \in Slots :
        /\ reqs[slot].kind = "batch"
        /\ reqs[slot].outcome = "saved"
        /\ \E i \in 1..Len(reqs[slot].batch) :
              /\ reqs[slot].batch[i].btwRate = 0
              /\ \E p \in products :
                    /\ p.itemName = reqs[slot].batch[i].itemName
                    /\ p.category = reqs[slot].batch[i].category
                    /\ p.isReviewed
                    /\ p.btwRate = 9

-----------------------------------------------------------------------------
(* parseNumber on its own, over amount strings put together from a prefix, *)
(* a body and a suffix.                                                    *)

AmountPrefixes == {"", "€", "€ ", "$", "-", "abc"}

AmountBodies ==
    {"", "0", "12", "50,00", "50.00", "12,5", ".5", ",5", "1,5,7", "1.234", "1,234",
     "1.234,56", "1,234.56", "1.234.567,89", "1,234,567.89", "1,234.567,89",
     "1.234,567.89"}

AmountSuffixes == {"", " ", "abc"}

ParseInputs ==
    {prefix \o body \o suffix :
        prefix \in AmountPrefixes, body \in AmountBodies, suffix \in AmountSuffixes}

InitParse ==
    /\ TypeInit
    /\ products = {}
    /\ nextProductId = 1

\* parseNumber(value)
Parse(value) ==
    /\ ~numResult.parsed
    /\ numValue' = value
    /\ numResult' = [parsed |-> TRUE, value |-> parseNumber(value)]
    /\ UNCHANGED <<productVars, pendingVars, customCategorySettings, sessionVars, reqs,
                   clsItem, clsSettings, clsResult, observed>>

NextParse == \E value \in ParseInputs : Parse(value)

SpecParse == InitParse /\ [][NextParse]_vars

HasDigit(s) == \E i \in 1..Len(s) : IsCharOf(CharAt(s, i), DigitChars)

\* C19: parseNumber returns a number for every input and returns 0 for the
\* empty input and for every input that holds no digit.
C19_NormalizerTotal ==
    numResult.parsed =>
        /\ numResult.value \in Int
        /\ ~HasDigit(numValue) => numResult.value = 0

\* "abc" has been parsed
C19_Witness ==
    /\ numResult.parsed
    /\ numValue = "abc"
    /\ numResult.value = 0

HasBoth(s) ==
    /\ \E i \in 1..Len(s) : CharAt(s, i) = ","
    /\ \E i \in 1..Len(s) : CharAt(s, i) = "."

\* the amount in thousandths when the later of the last ',' and the last '.' is
\* the decimal separator and every other ',' and '.' is a thousands separator
LastSymbolIsDecimal(s) ==
    LET cleaned == removeChars(s, "€$" \o WhitespaceChars)
        lastComma == lastIndexOf(cleaned, ",")
        lastPeriod == lastIndexOf(cleaned, ".")
        decimalAt == IF lastComma > lastPeriod THEN lastComma ELSE lastPeriod
        num == parseFloat(removeChars(SubSeq(cleaned, 1, decimalAt - 1), ",.")
                            \o "." \o SubSeq(cleaned, decimalAt + 1, Len(cleaned)))
    IN IF num.isNaN THEN 0 ELSE num.value

\* C20 (as claimed): for an input that holds both ',' and '.', the symbol that
\* occurs last is the decimal separator and every other occurrence of either
\* symbol is dropped before the conversion.
C20_LastSymbolIsDecimal ==
    (numResult.parsed /\ HasBoth(numValue)) =>
        numResult.value = LastSymbolIsDecimal(numValue)

\* an input whose decimal symbol also occurs earlier has been parsed, as have
\* the two examples of the specification in other behaviours
C20_Witness ==
    /\ numResult.parsed
    /\ numValue = "1,234.567,89"
    /\ numResult.value = 1234
    /\ LastSymbolIsDecimal(numValue) = 1234567890
    /\ parseNumber("1.234,56") = 1234560
    /\ parseNumber("1,234.56") = 1234560

-----------------------------------------------------------------------------
(* Shares, snapshots of the settings and the rates of a category summary.  *)

\* the shares of the records are amount / grand total * 100, as fractions: all
\* 0 when the grand total is 0, adding up to 100 when it is positive
SharesOf(records) ==
    LET grandTotal == SeqSum([i \in 1..Len(records) |-> records[i].totalAmount])
    IN /\ grandTotal = 0 =>
             \A i \in 1..Len(records) :
                records[i].percentage.num = 0 /\ records[i].percentage.den # 0
       /\ grandTotal > 0 =>
             /\ \A i \in 1..Len(records) :
                   /\ records[i].percentage.den = grandTotal
                   /\ records[i].percentage.num = records[i].totalAmount * 100
             /\ SeqSum([i \in 1..Len(records) |-> records[i].percentage.num])
                   = 100 * grandTotal

-----------------------------------------------------------------------------
(* Two review submissions for one description whose database calls         *)
(* interleave (SpecBatch).                                                 *)

\* the decision a submission ends with, and the count its read of the
\* product table returned for that description
LastDecision(r) == r.batch[Len(r.batch)]

CountRead(r) == IF r.existing = NoProduct THEN 0 ELSE r.existing.transactionCount

\* submissions a and b were both in progress at some moment, have both been
\* answered without a rejected database call, end with a decision for the same
\* description, and no other submission touches that description
ConcurrentPair(a, b) ==
    /\ a # b
    /\ reqs[a].kind = "batch" /\ reqs[b].kind = "batch"
    /\ reqs[a].pc = "done" /\ reqs[b].pc = "done"
    /\ ~reqs[a].failed /\ ~reqs[b].failed
    /\ a \notin reqs[b].startedAfter /\ b \notin reqs[a].startedAfter
    /\ LastDecision(reqs[a]).itemName = LastDecision(reqs[b]).itemName
    /\ \A k \in Slots \ {a, b} :
          \A i \in 1..Len(reqs[k].batch) :
             reqs[k].batch[i].itemName # LastDecision(reqs[a]).itemName

SameChoice(p, dec) ==
    /\ p.category = dec.category
    /\ p.btwRate = dec.btwRate
    /\ p.twinfieldAccount = dec.twinfieldAccount

\* C22 (as claimed): two concurrent review submissions for one description are
\* both answered without error, and the description's record then carries the
\* choice of one of them and a count that includes the counts of both, whether
\* the description had a record before or not.
C22_ConcurrentSubmissions ==
    \A a, b \in Slots :
        ConcurrentPair(a, b) =>
            LET da == LastDecision(reqs[a])
                db == LastDecision(reqs[b])
                before == IF CountRead(reqs[a]) < CountRead(reqs[b])
                          THEN CountRead(reqs[a]) ELSE CountRead(reqs[b])
            IN /\ reqs[a].outcome = "saved"
               /\ reqs[b].outcome = "saved"
               /\ Cardinality(RecordsOf(products, da.itemName)) = 1
               /\ \A p \in RecordsOf(products, da.itemName) :
                     /\ SameChoice(p, da) \/ SameChoice(p, db)
                     /\ p.transactionCount
                           = before + da.transactionCount + db.transactionCount

\* both submissions read "no record" for a new description; the second insert
\* was refused
C22_Witness ==
    \E a, b \in Slots :
        /\ ConcurrentPair(a, b)
        /\ reqs[a].existing = NoProduct /\ reqs[b].existing = NoProduct
        /\ reqs[a].outcome = "saved"
        /\ reqs[b].outcome = "error"

\* both submissions read the same record of a known description and each wrote
\* its own sum: the count holds one of the two additions
C22_WitnessLostUpdate ==
    \E a, b \in Slots :
        /\ ConcurrentPair(a, b)
        /\ reqs[a].existing # NoProduct
        /\ reqs[a].existing = reqs[b].existing
        /\ reqs[a].outcome = "saved" /\ reqs[b].outcome = "saved"
        /\ \A p \in RecordsOf(products, LastDecision(reqs[a]).itemName) :
              p.transactionCount
                 < reqs[a].existing.transactionCount
                     + LastDecision(reqs[a]).transactionCount
                     + LastDecision(reqs[b]).transactionCount

-----------------------------------------------------------------------------
(* The storage writes of a run one by one, next to GET                      *)
(* /api/sessions/:sessionId (SpecWrite).  createSession and the add*        *)
(* methods of MemStorage do no I/O: each `await` on them resumes as a       *)
(* microtask, and Node runs the handler of another request only from a      *)
(* macrotask, once the microtask queue is empty.                            *)

\* `for (const row of momenceData)` from row n on, the product table reading
\* the same throughout
RECURSIVE rowLoop(_, _, _, _, _)
rowLoop(momenceData, n, acc, customCategories, table) ==
    IF n > Len(momenceData)
    THEN acc
    ELSE rowLoop(momenceData, n + 1,
                 accumulateRow(acc, momenceData[n],
                               categorizeItem(momenceData[n].Item, customCategories, table)),
                 customCategories, table)

\* the positions of a run between two of its storage writes
WritePhases == {"addComparisons", "addPaymentMethods", "addCategories", "addCategoryItems"}

\* every await between the writes is an interleaving point
CanRunAnytime(slot) == TRUE

\* the handler of slot (0: the handler of a request that arrives) can take a
\* step: no other handler is between two awaits on MemStorage
CanRun(slot) == \A k \in Slots \ {slot} : reqs[k].pc \notin WritePhases

\* processReconciliation has left its loops: storage.createSession
CreateSessionStep(slot) ==
    /\ reqs[slot].pc = "tail"
    /\ CanRun(slot)
    /\ LET r == reqs[slot]
           out == processTail(r.acc, r.stripeData, r.period)
       IN /\ sessions' = createSession(sessions, out.session, slot)
          /\ reqs' = [reqs EXCEPT ![slot] = [r EXCEPT !.pc = "addComparisons",
                                                      !.sessionId = Len(sessions) + 1]]
    /\ UNCHANGED <<productVars, pendingVars, customCategorySettings, comparisons,
                   paymentMethods, categories, categoryItems, probeVars>>

\* the next of storage.addComparisons, addPaymentMethods, addCategories and
\* the loop of addCategoryItems
AddRecordsStep(slot) ==
    /\ reqs[slot].pc \in WritePhases
    /\ CanRun(slot)
    /\ LET r == reqs[slot]
           id == r.sessionId
           out == processTail(r.acc, r.stripeData, r.period)
       IN CASE r.pc = "addComparisons" ->
                 /\ comparisons' = addComparisons(comparisons, id,
                                                  withSessionId(out.comparisons, id))
                 /\ reqs' = [reqs EXCEPT ![slot] = [r EXCEPT !.pc = "addPaymentMethods"]]
                 /\ UNCHANGED <<paymentMethods, categories, categoryItems>>
            [] r.pc = "addPaymentMethods" ->
                 /\ paymentMethods' = addPaymentMethods(paymentMethods, id,
                                                        withSessionId(out.paymentMethods, id))
                 /\ reqs' = [reqs EXCEPT ![slot] = [r EXCEPT !.pc = "addCategories"]]
                 /\ UNCHANGED <<comparisons, categories, categoryItems>>
            [] r.pc = "addCategories" ->
                 /\ categories' = addCategories(categories, id,
                                                withSessionId(out.categories, id))
                 /\ reqs' = [reqs EXCEPT ![slot] = [r EXCEPT !.pc = "addCategoryItems"]]
                 /\ UNCHANGED <<comparisons, paymentMethods, categoryItems>>
            [] r.pc = "addCategoryItems" ->
                 /\ categoryItems' = addCategoryItems(categoryItems, id, out.categoryItems)
                 /\ reqs' = [reqs EXCEPT ![slot] = [r EXCEPT !.pc = "done",
                                                             !.outcome = "session"]]
                 /\ UNCHANGED <<comparisons, paymentMethods, categories>>
    /\ UNCHANGED <<productVars, pendingVars, customCategorySettings, sessions, probeVars>>

\* GET /api/sessions/:sessionId: storage.getFullResult reads the session and
\* its records from the maps; the observation notes which maps held an entry
GetFullResult(sessionId) ==
    /\ CanRun(0)
    /\ observed' =
          IF sessionId \in 1..Len(sessions)
          THEN [request |-> "getFullResult", sessionId |-> sessionId,
                status |-> sessions[sessionId].status,
                comparisons |-> sessionId \in DOMAIN comparisons,
                paymentMethods |-> sessionId \in DOMAIN paymentMethods,
                categories |-> sessionId \in DOMAIN categories]
          ELSE [request |-> "getFullResult", sessionId |-> sessionId,
                status |-> "notFound",
                comparisons |-> FALSE, paymentMethods |-> FALSE, categories |-> FALSE]
    /\ UNCHANGED <<productVars, pendingVars, customCategorySettings, sessionVars, reqs,
                   clsItem, clsSettings, clsResult, numValue, numResult>>

\* feed-A uploads of the runs that are about to write
WriteUploads == {<<RowMembership>>, <<RowMembership, RowClassPass>>, <<RowNoItem>>}

InitWrite ==
    /\ products = {}
    /\ nextProductId = 1
    /\ pending = {}
    /\ nextPendingId = 1
    /\ customCategorySettings = NullSettings
    /\ sessions = <<>>
    /\ comparisons = <<>>
    /\ paymentMethods = <<>>
    /\ categories = <<>>
    /\ categoryItems = <<>>
    /\ clsItem = ""
    /\ clsSettings = NullSettings
    /\ clsResult = NoResult
    /\ numValue = ""
    /\ numResult = NotParsed
    /\ observed = NoObservation
    /\ \E uploads \in [Slots -> WriteUploads] :
          reqs = [slot \in Slots |->
                    [IdleRequest EXCEPT !.kind = "reconcile", !.pc = "tail",
                                        !.momenceData = uploads[slot],
                                        !.stripeData = <<ChargeAlice49>>,
                                        !.period = Period,
                                        !.rowIdx = Len(uploads[slot]) + 1,
                                        !.acc = rowLoop(uploads[slot], 1, EmptyAcc,
                                                        NullSettings, {})]]

NextWrite ==
    \/ \E slot \in Slots : CreateSessionStep(slot)
    \/ \E slot \in Slots : AddRecordsStep(slot)
    \/ \E sessionId \in 1..MaxRequests : GetFullResult(sessionId)

SpecWrite == InitWrite /\ [][NextWrite]_vars

-----------------------------------------------------------------------------
(* The category settings a run works with, and the rate and ledger code of *)
(* a category summary (SpecRun).                                           *)

\* what categorizeItem returns for row i of the request's feed-A upload under
\* the category settings the request read when its run started
SnapshotClass(r, i) == categorizeItem(r.momenceData[i].Item, r.customCategories, products)

\* C24: a run classifies every row against the category settings it read once
\* at its start: each row is counted in the category those settings give it,
\* and each category summary carries that category with a rate and a ledger
\* code those settings give to one of its rows, whatever has been saved or
\* reset in the settings while the run was in progress.
C24_SnapshotOfSettings ==
    \A id \in SessionIds :
        LET r == RequestOf(sessions[id])
            rows == 1..Len(r.momenceData)
        IN /\ \A i \in rows :
                 \E k \in 1..Len(categories[id]) :
                    categories[id][k].category = SnapshotClass(r, i).category
           /\ \A k \in 1..Len(categories[id]) :
                 \E i \in rows :
                    /\ SnapshotClass(r, i).category = categories[id][k].category
                    /\ SnapshotClass(r, i).btwRate = categories[id][k].btwRate
                    /\ SnapshotClass(r, i).twinfieldAccount
                          = categories[id][k].twinfieldAccount

\* a run has classified a row and waits at its next row, the settings have
\* been replaced since its start, and the settings now in force would give a
\* different answer for the row it waits at
C24_Witness ==
    /\ reqs[1].pc = "row"
    /\ reqs[1].rowIdx > 1
    /\ reqs[1].acc.categoryTotals # <<>>
    /\ customCategorySettings # reqs[1].customCategories
    /\ categorizeItem(reqs[1].momenceData[reqs[1].rowIdx].Item, customCategorySettings, products)
          # SnapshotClass(reqs[1], reqs[1].rowIdx)

\* the rows of the request's upload the run put into category c
RowsOfCategory(r, c) ==
    {i \in 1..Len(r.momenceData) : SnapshotClass(r, i).category = c}

FirstOf(S) == CHOOSE i \in S : \A j \in S : i <= j

\* C28: a category summary carries the tax rate and the ledger code the
\* classifier returned for the first feed-A row of the category; the later
\* rows of the category add to its count, amount and tax only.
C28_RateOfFirstRow ==
    \A id \in SessionIds :
        \A k \in 1..Len(categories[id]) :
            LET r == RequestOf(sessions[id])
                c == categories[id][k]
                rows == RowsOfCategory(r, c.category)
            IN /\ rows # {}
               /\ c.btwRate = SnapshotClass(r, FirstOf(rows)).btwRate
               /\ c.twinfieldAccount = SnapshotClass(r, FirstOf(rows)).twinfieldAccount
               /\ c.transactionCount = Cardinality(rows)
               /\ c.totalAmount
                     = SeqSum([i \in 1..Len(r.momenceData) |->
                                 IF i \in rows
                                 THEN parseNumberTable[r.momenceData[i].SaleValue] ELSE 0])
               /\ c.totalTax
                     = SeqSum([i \in 1..Len(r.momenceData) |->
                                 IF i \in rows
                                 THEN parseNumberTable[r.momenceData[i].Tax] ELSE 0])

\* a category summary of two rows for which the classifier returned different
\* tax rates
C28_Witness ==
    \E id \in SessionIds :
        \E k \in 1..Len(categories[id]) :
            LET r == RequestOf(sessions[id])
                rows == RowsOfCategory(r, categories[id][k].category)
            IN /\ Cardinality(rows) = 2
               /\ \E j \in rows :
                     SnapshotClass(r, j).btwRate # SnapshotClass(r, FirstOf(rows)).btwRate
               /\ categories[id][k].btwRate = SnapshotClass(r, FirstOf(rows)).btwRate

-----------------------------------------------------------------------------
(* The order of the comparison list under permutations of the rows of the  *)
(* two uploads (SpecRun).                                                  *)

\* the sequences with the elements of s in any order
PermutationsOf(s) ==
    {[i \in 1..Len(s) |-> s[f[i]]] :
        f \in {g \in [1..Len(s) -> 1..Len(s)] : \A i, j \in 1..Len(s) : g[i] = g[j] => i = j}}

\* the identities of the sorted comparison list a run computes from the two
\* uploads, in the order of the list
IdentitiesInOrder(momenceData, stripeData, customCategories, table) ==
    LET list == comparisonsOfRun(
                    rowLoop(momenceData, 1, EmptyAcc, customCategories, table).momenceByEmail,
                    stripeLoop(stripeData, 1, EmptyStripe).stripeByEmail)
    IN [i \in 1..Len(list) |-> list[i].customerEmail]

\* C25 (as claimed): the comparison list of a session names the identities in
\* the same order for every permutation of the rows of its feed-A upload and
\* of its feed-B upload, ties in the absolute difference included.
C25_OrderIndependentOfRowOrder ==
    \A id \in SessionIds :
        LET r == RequestOf(sessions[id])
        IN \A rowsA \in PermutationsOf(r.momenceData), rowsB \in PermutationsOf(r.stripeData) :
              IdentitiesInOrder(rowsA, rowsB, r.customCategories, products)
                 = [i \in 1..Len(comparisons[id]) |-> comparisons[id][i].customerEmail]

\* a comparison list with two identities of equal absolute difference, both
\* from feed B alone
C25_Witness ==
    \E id \in SessionIds :
        /\ Len(comparisons[id]) = 2
        /\ comparisons[id][1].customerEmail # comparisons[id][2].customerEmail
        /\ comparisons[id][1].difference = comparisons[id][2].difference
        /\ comparisons[id][1].momenceTotal = 0
        /\ comparisons[id][2].momenceTotal = 0

-----------------------------------------------------------------------------
(* The exclusion overrides of the keyword rules and the gift card codes    *)
(* (SpecClassify).                                                         *)

\* a keyword of rule c occurs in d and the exclusion override of c applies
ExcludedMatch(c, d, settings) ==
    /\ RuleExcluded(c, d)
    /\ \E k \in RuleKeywords(c, settings) : includes(toLowerCase(d), toLowerCase(k))

C26_WitnessCatchAll ==
    /\ Classified
    /\ ApprovedRecords = {}
    /\ ExcludedMatch("Abonnementen", clsItem, clsSettings)
    /\ clsResult.category = "Overig"


\* d consists of 6 to 10 letters and digits, capitals or not
IsAlphanumericCode(d) ==
    /\ Len(d) >= 6 /\ Len(d) <= 10
    /\ \A i \in 1..Len(d) :
          \/ IsCharOf(CharAt(d, i), UpperChars)
          \/ IsCharOf(CharAt(d, i), LowerChars)
          \/ IsCharOf(CharAt(d, i), DigitChars)

\* C30 (as claimed): without an approved record, a description of 6 to 10
\* letters and digits is classified Gift Cards with rate 0 and ledger code
\* 8900, in capitals, in small letters or mixed.
C30_GiftCodeAnyCase ==
    (Classified /\ ApprovedRecords = {} /\ IsAlphanumericCode(clsItem)) =>
        /\ clsResult.category = "Gift Cards"
        /\ clsResult.btwRate = 0
        /\ clsResult.twinfieldAccount = "8900"

\* a code in small letters has been classified, and its capital form is a
\* gift card code
C30_Witness ==
    /\ Classified
    /\ ApprovedRecords = {}
    /\ clsItem = "gift2024xy"
    /\ IsAlphanumericCode(clsItem)
    /\ clsResult.category = "Overig"
    /\ categorizeItemByKeywords("GIFT2024XY", clsSettings).category = "Gift Cards"

-----------------------------------------------------------------------------
(* Amount strings with one kind of separator (SpecParse).                  *)

\* s without the characters of chars
RECURSIVE Without(_, _)
Without(s, chars) ==
    IF s = "" THEN ""
    ELSE (IF IsCharOf(CharAt(s, 1), chars) THEN "" ELSE SubSeq(s, 1, 1))
         \o Without(SubSeq(s, 2, Len(s)), chars)

HasChar(s, c) == \E i \in 1..Len(s) : CharAt(s, i) = c

\* s holds commas or periods, and one of the two kinds only
OneSeparatorKind(s) == HasChar(s, ",") # HasChar(s, ".")

\* C27 (as claimed): in an amount string with one kind of separator every
\* separator is a thousands separator and is removed: the value is that of the
\* string without its commas and periods ("1,234" and "1.234" give 1234).
C27_SingleSeparatorIsThousands ==
    (numResult.parsed /\ OneSeparatorKind(numValue)) =>
        numResult.value = parseNumber(Without(numValue, ",."))

\* "1,234" has been parsed, to 1.234
C27_Witness ==
    /\ numResult.parsed
    /\ numValue = "1,234"
    /\ OneSeparatorKind(numValue)
    /\ numResult.value = 1234
    /\ parseNumber("1234") = 1234000

-----------------------------------------------------------------------------
(* The DELETE routes of registerRoutes and their dispatch (SpecRoutes).    *)
(* A path is the sequence of its segments; Express hands a request to the  *)
(* first registered route whose pattern matches, and these handlers answer *)
(* without calling next().                                                 *)

\* parseInt(s): the value of the longest prefix [+-]digits after leading
\* whitespace; NaN when it holds no digit
parseInt(s) ==
    LET t == trimStart(s)
        signed == Len(t) > 0 /\ (CharAt(t, 1) = "-" \/ CharAt(t, 1) = "+")
        negative == Len(t) > 0 /\ CharAt(t, 1) = "-"
        body == IF signed THEN SubSeq(t, 2, Len(t)) ELSE t
        n == digitRun(body)
    IN IF n = 0 THEN NaN
       ELSE IF negative THEN Num(0 - digitsValue(SubSeq(body, 1, n)))
       ELSE Num(digitsValue(SubSeq(body, 1, n)))

\* the app.delete calls in the order registerRoutes makes them
DeleteRoutes ==
    <<[pattern |-> <<"api", "products", ":id">>, handler |-> "deleteProduct"],
      [pattern |-> <<"api", "products", "all">>, handler |-> "clearAllProducts"],
      [pattern |-> <<"api", "pending-reconciliations", ":id">>,
       handler |-> "deletePendingReconciliation"],
      [pattern |-> <<"api", "pending-reconciliations", "all">>,
       handler |-> "clearAllPendingReconciliations"]>>

\* a pattern segment matches itself; a parameter segment matches any segment
matchesRoute(pattern, path) ==
    /\ Len(pattern) = Len(path)
    /\ \A i \in 1..Len(pattern) :
          \/ pattern[i] = path[i]
          \/ CharAt(pattern[i], 1) = ":" /\ path[i] # ""

\* the handler of the first registered route that matches
dispatch(routes, path) ==
    LET M == {i \in 1..Len(routes) : matchesRoute(routes[i].pattern, path)}
    IN IF M = {} THEN "notFound"
       ELSE routes[CHOOSE i \in M : \A j \in M : i <= j].handler

deleteProduct(table, id) == {p \in table : p.id # id}

clearAllProducts(table) == {}

clearAllPendingReconciliations(table) == {}

\* the identifier of a pending reconciliation as the model numbers it, given
\* its text in a path; 0, never handed out, for any other text
PendingNamed(text) ==
    IF \E k \in 1..nextPendingId : ToString(k) = text
    THEN CHOOSE k \in 1..nextPendingId : ToString(k) = text
    ELSE 0

\* a DELETE request for path is dispatched and its handler answers
HandleDelete(path) ==
    /\ LET handler == dispatch(DeleteRoutes, path)
           id == parseInt(path[Len(path)])
       IN CASE handler = "deleteProduct" ->
                 /\ products' = IF id.isNaN THEN products
                                ELSE deleteProduct(products, id.value)
                 /\ observed' = [request |-> "delete", path |-> path, handler |-> handler,
                                 status |-> IF id.isNaN THEN 400 ELSE 200]
                 /\ UNCHANGED pending
            [] handler = "clearAllProducts" ->
                 /\ products' = clearAllProducts(products)
                 /\ observed' = [request |-> "delete", path |-> path, handler |-> handler,
                                 status |-> 200]
                 /\ UNCHANGED pending
            [] handler = "deletePendingReconciliation" ->
                 /\ pending' = deletePendingReconciliation(pending,
                                                           PendingNamed(path[Len(path)]))
                 /\ observed' = [request |-> "delete", path |-> path, handler |-> handler,
                                 status |-> 200]
                 /\ UNCHANGED products
            [] handler = "clearAllPendingReconciliations" ->
                 /\ pending' = clearAllPendingReconciliations(pending)
                 /\ observed' = [request |-> "delete", path |-> path, handler |-> handler,
                                 status |-> 200]
                 /\ UNCHANGED products
            [] OTHER ->
                 /\ observed' = [request |-> "delete", path |-> path, handler |-> handler,
                                 status |-> 404]
                 /\ UNCHANGED <<products, pending>>
    /\ UNCHANGED <<nextProductId, nextPendingId, customCategorySettings, sessionVars, reqs,
                   clsItem, clsSettings, clsResult, numValue, numResult>>

ProductsAll == <<"api", "products", "all">>

PendingAll == <<"api", "pending-reconciliations", "all">>

DeletePaths ==
    {ProductsAll, PendingAll,
     <<"api", "products", "1">>, <<"api", "products", "3">>, <<"api", "products", "x1">>,
     <<"api", "pending-reconciliations", "1">>, <<"api", "pending-reconciliations", "2">>,
     <<"api", "sessions", "1">>}

\* pending reconciliations as POST /api/reconcile saves them
PendingRow(id, momenceData) ==
    [id |-> id, period |-> Period, momenceData |-> momenceData,
     stripeData |-> <<ChargeAlice49>>, newProductCount |-> 1, status |-> "pending"]

InitRoutes ==
    /\ products \in SUBSET {ProductYoga, ProductMembership, ProductGift}
    /\ nextProductId = 5
    /\ pending \in SUBSET {PendingRow(1, <<RowMystery>>), PendingRow(2, <<RowYogaIdeal>>)}
    /\ nextPendingId = 3
    /\ customCategorySettings = NullSettings
    /\ sessions = <<>>
    /\ comparisons = <<>>
    /\ paymentMethods = <<>>
    /\ categories = <<>>
    /\ categoryItems = <<>>
    /\ reqs = [slot \in Slots |-> IdleRequest]
    /\ clsItem = ""
    /\ clsSettings = NullSettings
    /\ clsResult = NoResult
    /\ numValue = ""
    /\ numResult = NotParsed
    /\ observed = NoObservation

NextRoutes == \E path \in DeletePaths : HandleDelete(path)

SpecRoutes == InitRoutes /\ [][NextRoutes]_vars

\* C29 (as claimed): a DELETE /api/products/all request leaves product memory
\* without records and a DELETE /api/pending-reconciliations/all request
\* leaves no pending reconciliation, both answered with success.
C29_ClearAllRoutes ==
    /\ (observed.request = "delete" /\ observed.path = ProductsAll)
          => (products = {} /\ observed.status = 200)
    /\ (observed.request = "delete" /\ observed.path = PendingAll)
          => (pending = {} /\ observed.status = 200)

\* DELETE /api/products/all has been answered by the handler of
\* /api/products/:id with 400, the records still there
C29_Witness ==
    /\ observed.request = "delete"
    /\ observed.path = ProductsAll
    /\ observed.handler = "deleteProduct"
    /\ observed.status = 400
    /\ products # {}

\* DELETE /api/pending-reconciliations/all has been answered with success by
\* the handler of /api/pending-reconciliations/:id, the records still there
C29_WitnessPending ==
    /\ observed.request = "delete"
    /\ observed.path = PendingAll
    /\ observed.handler = "deletePendingReconciliation"
    /\ observed.status = 200
    /\ pending # {}

====
